---- MODULE Spec2Model ----
(***************************************************************************)
(* Model of the openstack-reporter resource aggregation engine             *)
(* (internal/openstack client), of the refresh handlers that drive it and  *)
(* of the on-disk snapshot store (internal/storage).                       *)
(*                                                                         *)
(* Spec      : one collection run, from the handler's fetchFromOpenStack   *)
(*             to the returned (report, error) pair.                       *)
(* StoreSpec : a single writer using SaveReport / LoadReport /             *)
(*             CleanupBackups on the data directory.                       *)
(* ProgressSpec, ConsumerSpec : runs with a progress reporter, without and  *)
(*             with a reader of the progress channel.                      *)
(* HandlerSpec : Handler.GetResources on a data directory as found.        *)
(* RepeatSpec : two runs against an origin that does not change.           *)
(* SummarySpec, EnrichSpec : calculateSummary and the enriching collectors *)
(*             applied to inputs of their own.                             *)
(* CancelSpec : runs whose caller's request context may become done.       *)
(* RefreshSpec : RefreshResources and the goroutine of RefreshWithProgress *)
(*             on a data directory as found.                               *)
(* WriterSpec : SaveReport step by step, with a reading request.           *)
(* SessionSpec, SessionFairSpec : concurrent progress sessions and their   *)
(*             GetProgress streams.                                        *)
(***************************************************************************)
EXTENDS Integers, Sequences, FiniteSets, TLC

(***************************************************************************)
(* Bounds of the model.                                                    *)
(***************************************************************************)
MaxScopes == 2        \* most projects the identity service lists
MaxFailures == 2      \* most remote calls that fail while one run collects
MaxSaves == 3         \* most SaveReport calls of one writer
MaxTicks == 1         \* most seconds the clock advances one by one
MaxSaveFailures == 1  \* most SaveReport calls that return an error
SmallCap == 2         \* capacity of a progress channel that fills up during a run
MaxLen == 3           \* longest resource list handed to calculateSummary
MaxAttachments == 2   \* most attachments of a volume
MaxSessions == 2      \* most RefreshWithProgress requests
MaxStreams == 1       \* most GetProgress requests
MaxEvents == 1        \* most progress events of one session before its last
MaxReads == 1         \* most events a consumer takes from the progress channel

(***************************************************************************)
(* Program constants.                                                      *)
(***************************************************************************)
ProgressCap == 100    \* make(chan openstack.ProgressMessage, 100)
BackupMaxAge == 7 * 24 * 3600   \* CleanupBackups(7 * 24 * time.Hour), in seconds

VARIABLES
    envProjectName,   \* os.Getenv("OS_PROJECT_NAME")
    envProjectID,     \* os.Getenv("OS_PROJECT_ID")
    nScopes,          \* number of projects a project listing returns
    projectsGetOK,    \* whether the identity service answers projects.Get
    pc,               \* position of the collection run
    withProgress,     \* TRUE: GetAllResourcesWithProgress, FALSE: GetAllResources
    path,             \* "none" | "single" | "multi" | "fallback"
    client,           \* shared session made by NewClient: optional sub-clients
    report,           \* *models.ResourceReport being built
    allProjects,      \* result of scope discovery
    allResources,     \* accumulator of the per-project loop
    idx,              \* index of the project being processed (1-based)
    outcome,          \* "none" | "report" | "error": what the run returned
    calls,            \* history: remote calls made, in order
    issued,           \* history: SendProgress invocations, in order
    progressChan,     \* content of the buffered progress channel
    chanCap,          \* capacity of the progress channel, NilChan when it is nil
    received,         \* history: number of events the consumer took
    plain,            \* history: what GetAllResources returns on the same answers
    first,            \* history: how the first of two runs ended
    resources,        \* a resource list handed to calculateSummary
    applied,          \* the lists calculateSummary was applied to, with its results
    lookups,          \* records of one project and the answers to the lookups on them
    collected,        \* what the collectors made of lookups
    fs,               \* data directory: file name -> file, for StoreSpec
    now,              \* time.Now().Unix()
    saves,            \* history: number of SaveReport calls
    saved,            \* history: reports whose SaveReport returned nil
    lastOp,           \* history: last storage operation and its result
    loaded,           \* what LoadReport returned, when it is the last operation
    pruned,           \* history: CleanupBackups removed a file
    request,          \* the HTTP request being served, "none" when idle
    response,         \* the HTTP response written for it
    cancelled,        \* the context of the request that asked for the refresh is done
    saving,           \* the SaveReport call in progress: its position and its report
    sessions,         \* the progress sessions: goroutine position, id, channel
    progressChannels, \* h.progressChannels: session id -> channel (that of a session)
    streams           \* the GetProgress requests: position and channel looked up

runVars == <<envProjectName, envProjectID, nScopes, projectsGetOK, pc, withProgress, path, client,
             report, allProjects, allResources, idx, outcome, calls, issued,
             progressChan, chanCap, received, plain, first>>
storeVars == <<fs, now, saves, saved, lastOp, loaded, pruned>>
handlerVars == <<request, response>>
pureVars == <<resources, applied, lookups, collected>>
progressVars == <<sessions, progressChannels, streams>>
sessionVars == <<cancelled, saving, progressVars>>
vars == <<runVars, storeVars, handlerVars, pureVars, sessionVars>>

(***************************************************************************)
(* The origin system: projects and the raw records its list calls return.  *)
(***************************************************************************)
ScopeNames == <<"alpha", "beta", "gamma", "delta">>
ScopeIDs == <<"id-alpha", "id-beta", "id-gamma", "id-delta">>

\* models.Project as built from projects.ExtractProjects
Project(k) == [ID |-> ScopeIDs[k], Name |-> ScopeNames[k]]

\* the list a successful project listing returns, in the origin's order
DiscoveredProjects(n) == [k \in 1..n |-> Project(k)]

\* index of the origin project a session is authenticated into; 0 is the
\* initialisation project "infra", -1 a name the origin does not know
ScopeIndex(name) ==
    IF \E k \in 1..Len(ScopeNames) : ScopeNames[k] = name
    THEN CHOOSE k \in 1..Len(ScopeNames) : ScopeNames[k] = name
    ELSE IF name = "infra" THEN 0 ELSE -1

ScopeIDOf(k) == IF k >= 1 THEN ScopeIDs[k] ELSE IF k = 0 THEN "id-infra" ELSE ""

\* progress tags of the collectors, in the order the code runs them
TypeOrder == <<"servers", "volumes", "floating_ips", "routers", "networks",
               "load_balancers", "vpn_connections", "k8s_clusters">>

\* Resource.Type each collector writes
ResourceType(j) ==
    <<"server", "volume", "floating_ip", "router", "network",
      "load_balancer", "vpn_service", "cluster">>[j]

\* Go dynamic type each collector stores in Resource.Properties
PropertiesType(j) ==
    <<"models.Server", "models.Volume", "models.FloatingIP", "models.Router",
      "models.Network", "models.LoadBalancer", "models.VPNService", "none">>[j]

ResourceTypes == {ResourceType(j) : j \in 1..Len(TypeOrder)}

\* how many records of collector j the origin holds for project k
RawCount(k, j) ==
    IF k < 0 \/ j = 8 THEN 0
    ELSE IF (k + j) % 2 = 1 THEN (IF j = 2 THEN 2 ELSE 1) ELSE 0

\* the raw records of a project-scoped list call; floating IPs come without
\* a tenant id
RawList(k, j) ==
    [n \in 1..RawCount(k, j) |->
        [ID |-> <<k, j, n>>,
         TenantID |-> IF j = 3 THEN "" ELSE ScopeIDOf(k)]]

RECURSIVE RawListAllTenants(_, _)
\* the raw records of an all-tenants list call: projects 0..k
RawListAllTenants(k, j) ==
    IF k < 0 THEN <<>> ELSE RawListAllTenants(k - 1, j) \o RawList(k, j)

(***************************************************************************)
(* Fault points: the remote calls of one session that may fail.  A set of  *)
(* fault points is the input of the action that uses the session.          *)
(*   <<"auth", 0>>       authentication or a required sub-client           *)
(*   <<"lb", 0>>         openstack.NewLoadBalancerV2                       *)
(*   <<"container", 0>>  openstack.NewContainerInfraV1                     *)
(*   <<"listall", j>>    the all-tenants list call of collector j          *)
(*   <<"list", j>>       the scoped list call of collector j               *)
(***************************************************************************)
RECURSIVE SubsetsUpTo(_, _)
SubsetsUpTo(S, n) ==
    IF n = 0 THEN {{}}
    ELSE LET prev == SubsetsUpTo(S, n - 1)
         IN  prev \cup {T \cup {x} : T \in prev, x \in S}

SessionPoints == {<<"auth", 0>>, <<"lb", 0>>, <<"container", 0>>}
ListPoints == {<<"list", j>> : j \in 1..7}
ListAllPoints == {<<"listall", j>> : j \in 1..2}

\* a failed authentication leaves no session whose calls could fail, and a
\* session without load-balancer client makes no load-balancer call
Effective(F) ==
    /\ <<"auth", 0>> \in F => F = {<<"auth", 0>>}
    /\ <<"lb", 0>> \in F => <<"list", 6>> \notin F

\* the fault sets of NewClient
SessionFaultSets == {F \in SubsetsUpTo(SessionPoints, MaxFailures) : Effective(F)}

\* the fault sets of one getResourcesForProject
ProjectFaultSets ==
    {F \in SubsetsUpTo(SessionPoints \cup ListPoints, MaxFailures) : Effective(F)}

\* the fault sets of one collectResourcesForProjects
SharedFaultSets == SubsetsUpTo(ListPoints \cup ListAllPoints, MaxFailures)

\* the fault sets that name calls the shared collectors make: an all-tenants
\* call only when no project name is set, and then the scoped call of the
\* same collector only as the retry of a failed all-tenants call
SharedEffective(F, allTenants) ==
    \A j \in 1..2 :
        IF allTenants THEN <<"list", j>> \in F => <<"listall", j>> \in F
        ELSE <<"listall", j>> \notin F

\* a remote call, as logged in calls
Call(op, scope, j, ok) == [op |-> op, scope |-> scope, tag |-> j, ok |-> ok]

\* calls whose failure the budget MaxFailures counts: sub-client construction,
\* per-project sessions and list calls (scope discovery, the initial
\* authentication and projects.Get are not bounded)
Budgeted(c) ==
    c.op \notin {"NewClient", "getProjectsViaAPI", "cli", "projects.Get"}

FailedCalls(log) == Cardinality({i \in 1..Len(log) : ~log[i].ok /\ Budgeted(log[i])})

(***************************************************************************)
(* Progress reporting.                                                     *)
(***************************************************************************)
\* openstack.ProgressMessage (Message, step counters and Summary left out)
Msg(type, project, rtype, count) ==
    [Type |-> type, Project |-> project, ResourceType |-> rtype, Count |-> count]

\* the capacity standing for a nil channel
NilChan == -1

\* the channels a caller may hand to the run: nil, one that fills up, and the
\* one RefreshWithProgress makes
ChanCaps == {NilChan, SmallCap, ProgressCap}

\* how many of n messages a channel of capacity cap holding ch takes when
\* nobody receives
Room(ch, cap, n) ==
    IF cap = NilChan THEN 0
    ELSE IF Len(ch) + n <= cap THEN n
    ELSE IF cap > Len(ch) THEN cap - Len(ch) ELSE 0

\* SendProgress that waits for room in the channel ("progressChan <- msg"
\* without a default branch; a bug the code does not have)
SendAllBlocking(ch, cap, msgs, after) ==
    /\ Room(ch, cap, Len(msgs)) = Len(msgs)
    /\ after = ch \o msgs

\* ChannelProgressReporter.SendProgress of each of msgs in turn, leaving the
\* channel as `after`: returns at once on a nil channel, and the select with
\* a default branch drops the messages that find the channel full
SendAll(ch, cap, msgs, after) ==
    after = ch \o SubSeq(msgs, 1, Room(ch, cap, Len(msgs)))

(***************************************************************************)
(* Pure helpers of the client.                                             *)
(***************************************************************************)
\* strings.TrimSpace on the values the environment variable takes here
TrimSpace(s) == IF s = " " THEN "" ELSE s

ZeroSummary ==
    [TotalProjects |-> 0, TotalServers |-> 0, TotalVolumes |-> 0,
     TotalLoadBalancers |-> 0, TotalFloatingIPs |-> 0, TotalVPNServices |-> 0,
     TotalClusters |-> 0, TotalRouters |-> 0, TotalNetworks |-> 0]

\* the switch in calculateSummary's loop body
SummaryStepNoNetworks(summary, type) ==
    CASE type = "server"        -> [summary EXCEPT !.TotalServers = @ + 1]
      [] type = "volume"        -> [summary EXCEPT !.TotalVolumes = @ + 1]
      [] type = "load_balancer" -> [summary EXCEPT !.TotalLoadBalancers = @ + 1]
      [] type = "floating_ip"   -> [summary EXCEPT !.TotalFloatingIPs = @ + 1]
      [] type = "vpn_service"   -> [summary EXCEPT !.TotalVPNServices = @ + 1]
      [] type = "cluster"       -> [summary EXCEPT !.TotalClusters = @ + 1]
      [] type = "router"        -> [summary EXCEPT !.TotalRouters = @ + 1]
      [] OTHER                  -> summary

SummaryStep(summary, type) ==
    CASE type = "server"        -> [summary EXCEPT !.TotalServers = @ + 1]
      [] type = "volume"        -> [summary EXCEPT !.TotalVolumes = @ + 1]
      [] type = "load_balancer" -> [summary EXCEPT !.TotalLoadBalancers = @ + 1]
      [] type = "floating_ip"   -> [summary EXCEPT !.TotalFloatingIPs = @ + 1]
      [] type = "vpn_service"   -> [summary EXCEPT !.TotalVPNServices = @ + 1]
      [] type = "cluster"       -> [summary EXCEPT !.TotalClusters = @ + 1]
      [] type = "router"        -> [summary EXCEPT !.TotalRouters = @ + 1]
      [] type = "network"       -> [summary EXCEPT !.TotalNetworks = @ + 1]
      [] OTHER                  -> summary

\* calculateSummary with a loop that ends at the first cluster
RECURSIVE SummaryLoopUntilCluster(_, _, _)
SummaryLoopUntilCluster(rs, i, summary) ==
    IF i > Len(rs) THEN summary
    ELSE IF rs[i].Type = "cluster" THEN SummaryStep(summary, rs[i].Type)
    ELSE SummaryLoopUntilCluster(rs, i + 1, SummaryStep(summary, rs[i].Type))

RECURSIVE SummaryLoop(_, _, _)
SummaryLoop(rs, i, summary) ==
    IF i > Len(rs) THEN summary
    ELSE SummaryLoop(rs, i + 1, SummaryStep(summary, rs[i].Type))

\* (c *Client) calculateSummary
calculateSummary(rs, totalProjects) ==
    SummaryLoop(rs, 1, [ZeroSummary EXCEPT !.TotalProjects = totalProjects])

\* the project the identity service returns for projects.Get(id)
OriginProjectByID(id) ==
    IF \E k \in 1..Len(ScopeIDs) : ScopeIDs[k] = id
    THEN Project(CHOOSE k \in 1..Len(ScopeIDs) : ScopeIDs[k] = id)
    ELSE [ID |-> id, Name |-> "infra"]

\* (c *Client) getCurrentProject, for an authenticated session; getOK is the
\* outcome of projects.Get, which is called only when OS_PROJECT_ID is set
getCurrentProject(getOK) ==
    LET projectName == IF envProjectName = "" THEN "Current Project" ELSE envProjectName
        projectID == IF envProjectID = "" THEN "current-project" ELSE envProjectID
    IN  IF projectID # "current-project" /\ getOK
        THEN OriginProjectByID(projectID)
        ELSE [ID |-> projectID, Name |-> projectName]

\* projectNames[tenantID] on a Go map: "" when the key is absent
LookupName(projectNames, tenantID) ==
    IF tenantID \in DOMAIN projectNames THEN projectNames[tenantID] ELSE ""

\* the map the aggregator builds for one project
ProjectNamesOf(p) == [id \in {p.ID} |-> p.Name]

\* the only entry of projectNames ("for id, name := range projectNames ... break")
FirstEntry(projectNames) ==
    LET id == CHOOSE x \in DOMAIN projectNames : TRUE
    IN  [ID |-> id, Name |-> projectNames[id]]

\* one models.Resource from one raw record of collector j; fallback is the
\* project used when the tenant id does not resolve (for volumes: always)
Normalize(raw, j, projectNames, fallback) ==
    LET name == LookupName(projectNames, raw.TenantID)
        useFallback == j = 2 \/ name = ""
    IN  [ID |-> raw.ID,
         Type |-> ResourceType(j),
         ProjectID |-> IF useFallback THEN fallback.ID ELSE raw.TenantID,
         ProjectName |-> IF useFallback THEN fallback.Name ELSE name,
         Properties |-> [GoType |-> PropertiesType(j), ID |-> raw.ID]]

\* collector j when a rejected all-tenants list call is not tried again
CollectorWithoutRetry(j, perProject, sess, projectNames, F) ==
    LET usesCurrent == j # 8 /\ ~(perProject /\ j \in {1, 2})
        getCalled == usesCurrent /\ envProjectID # ""
        fallback == IF usesCurrent THEN getCurrentProject(projectsGetOK)
                    ELSE FirstEntry(projectNames)
        allTenants == ~perProject /\ j \in {1, 2} /\ TrimSpace(envProjectName) = ""
        firstOK == IF allTenants THEN <<"listall", j>> \notin F
                   ELSE <<"list", j>> \notin F
        retried == FALSE
        retryOK == <<"list", j>> \notin F
        err == j # 8 /\ ~firstOK /\ (~retried \/ ~retryOK)
        raw == IF j = 8 \/ err THEN <<>>
               ELSE IF allTenants /\ firstOK THEN RawListAllTenants(nScopes, j)
               ELSE RawList(ScopeIndex(sess), j)
    IN  [err |-> err,
         resources |-> [n \in 1..Len(raw) |->
                           Normalize(raw[n], j, projectNames, fallback)],
         calls |-> (IF getCalled THEN <<Call("projects.Get", sess, j, projectsGetOK)>>
                    ELSE <<>>)
                   \o (IF j = 8 THEN <<>>
                       ELSE <<Call(IF allTenants THEN "list-all" ELSE "list",
                                   sess, j, firstOK)>>)
                   \o (IF retried THEN <<Call("list", sess, j, retryOK)>>
                       ELSE <<>>)]

(***************************************************************************)
(* Resource collectors.  A collector result is [err, resources, calls].    *)
(***************************************************************************)
\* collector j run through a session authenticated into project `sess`:
\* perProject = TRUE  : getServersForSingleProject, getVolumesForSingleProject,
\*                      getFloatingIPs, getRouters, getNetworks,
\*                      getLoadBalancers, getVPNConnections, getClusters
\*                      on a client made by createClientForProject;
\* perProject = FALSE : getServers, getVolumes, ... on the shared client.
Collector(j, perProject, sess, projectNames, F) ==
    LET usesCurrent == j # 8 /\ ~(perProject /\ j \in {1, 2})
        getCalled == usesCurrent /\ envProjectID # ""
        fallback == IF usesCurrent THEN getCurrentProject(projectsGetOK)
                    ELSE FirstEntry(projectNames)
        allTenants == ~perProject /\ j \in {1, 2} /\ TrimSpace(envProjectName) = ""
        firstOK == IF allTenants THEN <<"listall", j>> \notin F
                   ELSE <<"list", j>> \notin F
        retried == allTenants /\ ~firstOK
        retryOK == <<"list", j>> \notin F
        err == j # 8 /\ ~firstOK /\ (~retried \/ ~retryOK)
        raw == IF j = 8 \/ err THEN <<>>
               ELSE IF allTenants /\ firstOK THEN RawListAllTenants(nScopes, j)
               ELSE RawList(ScopeIndex(sess), j)
    IN  [err |-> err,
         resources |-> [n \in 1..Len(raw) |->
                           Normalize(raw[n], j, projectNames, fallback)],
         calls |-> (IF getCalled THEN <<Call("projects.Get", sess, j, projectsGetOK)>>
                    ELSE <<>>)
                   \o (IF j = 8 THEN <<>>
                       ELSE <<Call(IF allTenants THEN "list-all" ELSE "list",
                                   sess, j, firstOK)>>)
                   \o (IF retried THEN <<Call("list", sess, j, retryOK)>>
                       ELSE <<>>)]

\* whether the session has the sub-client collector j needs
HasClient(cl, j) == CASE j = 6 -> cl.lb [] j = 8 -> cl.container [] OTHER -> TRUE

\* one collector block of getResourcesForProjectWithProgress, which drops the
\* whole project when a collector fails (a bug the code does not have)
ProjectCollectorAbort(j, project, cl, F, acc) ==
    LET r == Collector(j, TRUE, project.Name, ProjectNamesOf(project), F)
        start == Msg("resource_start", project.Name, TypeOrder[j], 0)
    IN  IF acc.err THEN acc
        ELSE IF ~HasClient(cl, j)
        THEN [acc EXCEPT !.events = @ \o
                 <<start, Msg("resource_complete", project.Name, TypeOrder[j], 0)>>]
        ELSE IF r.err
        THEN [acc EXCEPT !.err = TRUE, !.resources = <<>>,
                         !.calls = @ \o r.calls,
                         !.events = @ \o <<start,
                             Msg("resource_error", project.Name, TypeOrder[j], 0)>>]
        ELSE [acc EXCEPT !.resources = @ \o r.resources,
                         !.calls = @ \o r.calls,
                         !.events = @ \o <<start,
                             Msg("resource_complete", project.Name, TypeOrder[j],
                                 Len(r.resources))>>]

\* one collector block of getResourcesForProjectWithProgress, which closes a
\* failed collector with the event of a finished one
ProjectCollectorQuietError(j, project, cl, F, acc) ==
    LET r == Collector(j, TRUE, project.Name, ProjectNamesOf(project), F)
        start == Msg("resource_start", project.Name, TypeOrder[j], 0)
    IN  IF ~HasClient(cl, j)
        THEN [acc EXCEPT !.events = @ \o
                 <<start, Msg("resource_complete", project.Name, TypeOrder[j], 0)>>]
        ELSE IF r.err
        THEN [acc EXCEPT !.calls = @ \o r.calls,
                         !.events = @ \o <<start,
                             Msg("resource_complete", project.Name, TypeOrder[j], 0)>>]
        ELSE [acc EXCEPT !.resources = @ \o r.resources,
                         !.calls = @ \o r.calls,
                         !.events = @ \o <<start,
                             Msg("resource_complete", project.Name, TypeOrder[j],
                                 Len(r.resources))>>]

\* one collector block of getResourcesForProjectWithProgress
ProjectCollector(j, project, cl, F, acc) ==
    LET r == Collector(j, TRUE, project.Name, ProjectNamesOf(project), F)
        start == Msg("resource_start", project.Name, TypeOrder[j], 0)
    IN  IF ~HasClient(cl, j)
        THEN [acc EXCEPT !.events = @ \o
                 <<start, Msg("resource_complete", project.Name, TypeOrder[j], 0)>>]
        ELSE IF r.err
        THEN [acc EXCEPT !.calls = @ \o r.calls,
                         !.events = @ \o <<start,
                             Msg("resource_error", project.Name, TypeOrder[j], 0)>>]
        ELSE [acc EXCEPT !.resources = @ \o r.resources,
                         !.calls = @ \o r.calls,
                         !.events = @ \o <<start,
                             Msg("resource_complete", project.Name, TypeOrder[j],
                                 Len(r.resources))>>]

\* getResourcesForProjectWithProgress running its collectors last type first
RECURSIVE ProjectCollectorsBackwards(_, _, _, _, _)
ProjectCollectorsBackwards(j, project, cl, F, acc) ==
    IF j > Len(TypeOrder) THEN acc
    ELSE ProjectCollector(j, project, cl, F,
                          ProjectCollectorsBackwards(j + 1, project, cl, F, acc))

RECURSIVE ProjectCollectors(_, _, _, _, _)
ProjectCollectors(j, project, cl, F, acc) ==
    IF j > Len(TypeOrder) THEN acc
    ELSE ProjectCollectors(j + 1, project, cl, F,
                           ProjectCollector(j, project, cl, F, acc))

\* the sub-clients a new session gets, and the calls that made them
SessionCalls(op, sess, F) ==
    IF <<"auth", 0>> \in F THEN <<Call(op, sess, 0, FALSE)>>
    ELSE <<Call(op, sess, 0, TRUE),
           Call("NewLoadBalancerV2", sess, 6, <<"lb", 0>> \notin F),
           Call("NewContainerInfraV1", sess, 8, <<"container", 0>> \notin F)>>

SessionClient(F) == [lb |-> <<"lb", 0>> \notin F, container |-> <<"container", 0>> \notin F]

\* getResourcesForProjectWithProgress on a createClientForProject that fails
\* when the load balancer or the container sub-client cannot be made
getResourcesForProjectWithProgressStrict(project, F) ==
    IF F \cap {<<"auth", 0>>, <<"lb", 0>>, <<"container", 0>>} # {}
    THEN [err |-> TRUE, resources |-> <<>>, events |-> <<>>,
          calls |-> SessionCalls("createClientForProject", project.Name, F)]
    ELSE ProjectCollectors(1, project, SessionClient(F), F,
             [err |-> FALSE, resources |-> <<>>, events |-> <<>>,
              calls |-> SessionCalls("createClientForProject", project.Name, F)])

\* getResourcesForProjectWithProgress: a new session for the project, then
\* every collector in order, each between its progress events
getResourcesForProjectWithProgress(project, F) ==
    IF <<"auth", 0>> \in F
    THEN [err |-> TRUE, resources |-> <<>>, events |-> <<>>,
          calls |-> SessionCalls("createClientForProject", project.Name, F)]
    ELSE ProjectCollectors(1, project, SessionClient(F), F,
             [err |-> FALSE, resources |-> <<>>, events |-> <<>>,
              calls |-> SessionCalls("createClientForProject", project.Name, F)])

\* one collector block of getResourcesForProject: a failure is printed and the
\* next collector runs; load balancers and clusters only "if client.x != nil"
PlainProjectCollector(j, project, cl, F, acc) ==
    LET r == Collector(j, TRUE, project.Name, ProjectNamesOf(project), F)
    IN  IF ~HasClient(cl, j) THEN acc
        ELSE IF r.err THEN [acc EXCEPT !.calls = @ \o r.calls]
        ELSE [acc EXCEPT !.resources = @ \o r.resources,
                         !.calls = @ \o r.calls]

RECURSIVE PlainProjectCollectors(_, _, _, _, _)
PlainProjectCollectors(j, project, cl, F, acc) ==
    IF j > Len(TypeOrder) THEN acc
    ELSE PlainProjectCollectors(j + 1, project, cl, F,
                                PlainProjectCollector(j, project, cl, F, acc))

\* getResourcesForProject: a new session for the project, then every collector
getResourcesForProject(project, F) ==
    IF <<"auth", 0>> \in F
    THEN [err |-> TRUE, resources |-> <<>>, events |-> <<>>,
          calls |-> SessionCalls("createClientForProject", project.Name, F)]
    ELSE PlainProjectCollectors(1, project, SessionClient(F), F,
             [err |-> FALSE, resources |-> <<>>, events |-> <<>>,
              calls |-> SessionCalls("createClientForProject", project.Name, F)])

\* name of the project the shared session of NewClient is authenticated into
SharedSession == IF envProjectName = "" THEN "infra" ELSE envProjectName

\* one collector block of collectResourcesForProjectsWithProgress, in which
\* every failed collector ends the run
SharedCollectorAllFatal(j, projectNames, F, acc) ==
    LET r == Collector(j, FALSE, SharedSession, projectNames, F)
        start == Msg("resource_start", "", TypeOrder[j], 0)
        complete == Msg("resource_complete", "", TypeOrder[j], Len(r.resources))
    IN  IF acc.err \/ ~HasClient(client, j) THEN acc
        ELSE IF r.err
        THEN [acc EXCEPT !.err = TRUE,
                         !.calls = @ \o r.calls,
                         !.events = @ \o <<start>>]
        ELSE [acc EXCEPT !.resources = @ \o r.resources,
                         !.calls = @ \o r.calls,
                         !.events = @ \o <<start, complete>>]

\* one collector block of collectResourcesForProjectsWithProgress
SharedCollector(j, projectNames, F, acc) ==
    LET r == Collector(j, FALSE, SharedSession, projectNames, F)
        start == Msg("resource_start", "", TypeOrder[j], 0)
        complete == Msg("resource_complete", "", TypeOrder[j], Len(r.resources))
    IN  IF acc.err \/ ~HasClient(client, j) THEN acc
        ELSE IF r.err
        THEN [acc EXCEPT !.err = j <= 5,
                         !.calls = @ \o r.calls,
                         !.events = @ \o <<start>>]
        ELSE [acc EXCEPT !.resources = @ \o r.resources,
                         !.calls = @ \o r.calls,
                         !.events = @ \o <<start, complete>>]

RECURSIVE SharedCollectors(_, _, _, _)
SharedCollectors(j, projectNames, F, acc) ==
    IF j > Len(TypeOrder) THEN acc
    ELSE SharedCollectors(j + 1, projectNames, F,
                          SharedCollector(j, projectNames, F, acc))

\* one collector block of collectResourcesForProjects
PlainSharedCollector(j, projectNames, F, acc) ==
    LET r == Collector(j, FALSE, SharedSession, projectNames, F)
    IN  IF acc.err \/ ~HasClient(client, j) THEN acc
        ELSE IF r.err
        THEN [acc EXCEPT !.err = j <= 5, !.calls = @ \o r.calls]
        ELSE [acc EXCEPT !.resources = @ \o r.resources,
                         !.calls = @ \o r.calls]

RECURSIVE PlainSharedCollectors(_, _, _, _)
PlainSharedCollectors(j, projectNames, F, acc) ==
    IF j > Len(TypeOrder) THEN acc
    ELSE PlainSharedCollectors(j + 1, projectNames, F,
                               PlainSharedCollector(j, projectNames, F, acc))

(***************************************************************************)
(* The aggregator: GetAllResources and GetAllResourcesWithProgress.        *)
(***************************************************************************)
EmptyReport ==
    [GeneratedAt |-> 0, Projects |-> <<>>, Resources |-> <<>>, Summary |-> ZeroSummary]

\* no run has ended yet
NoRun == [done |-> FALSE, report |-> EmptyReport, outcome |-> "none", calls |-> <<>>]

\* cs begins with the calls made so far and their answers
IsPrefix(log, cs) == Len(log) <= Len(cs) /\ log = SubSeq(cs, 1, Len(log))

\* the environment of a run: configuration and the origin's behaviour
Environment ==
    /\ envProjectName \in {"", " ", "alpha"}
    /\ envProjectID \in {"", "id-alpha"}
    /\ nScopes \in 0..MaxScopes
    /\ projectsGetOK \in (IF envProjectID = "" THEN {FALSE} ELSE BOOLEAN)

\* no refresh requested yet
RunIdle ==
    /\ pc = "idle"
    /\ withProgress = FALSE
    /\ path = "none"
    /\ client = [lb |-> FALSE, container |-> FALSE]
    /\ report = EmptyReport
    /\ allProjects = <<>>
    /\ allResources = <<>>
    /\ idx = 0
    /\ outcome = "none"
    /\ calls = <<>>
    /\ issued = <<>>
    /\ progressChan = <<>>
    /\ chanCap = NilChan
    /\ received = 0
    /\ plain = [report |-> EmptyReport, allResources |-> <<>>, outcome |-> "none"]
    /\ first = NoRun

RunInit == Environment /\ RunIdle

\* the reporter's SendProgress calls of one step; GetAllResources has no reporter
Emit(msgs) ==
    IF withProgress
    THEN /\ issued' = issued \o msgs
         /\ SendAll(progressChan, chanCap, msgs, progressChan')
    ELSE UNCHANGED <<issued, progressChan>>

\* the remote calls of one step, within the failure budget
\* the failures a run may still meet: all of the budget, and in a second run
\* those the first run met
FailuresLeft == IF first.done THEN FailedCalls(first.calls) ELSE MaxFailures

\* the origin is unchanged between two runs: it answers the calls of the
\* second as it answered those of the first
Log(cs) ==
    /\ calls' = calls \o cs
    /\ FailedCalls(calls') <= MaxFailures
    /\ first.done => IsPrefix(calls', first.calls)

\* "projectName != ''" with projectName := strings.TrimSpace(os.Getenv(...)),
\* wrongly decided on OS_PROJECT_ID
SingleProjectRequestedByID == envProjectID # ""

\* "projectName != ''" with projectName := strings.TrimSpace(os.Getenv(...))
SingleProjectRequested == TrimSpace(envProjectName) # ""

\* Handler.fetchFromOpenStack up to its call of NewClient
fetchFromOpenStack ==
    /\ pc = "idle"
    /\ pc' = "NewClient"
    /\ withProgress' = FALSE
    /\ UNCHANGED <<envProjectName, envProjectID, nScopes, projectsGetOK, path, client, report,
                   allProjects, allResources, idx, outcome, calls, issued,
                   progressChan, chanCap, received, plain, first, storeVars,
                   handlerVars, pureVars, sessionVars>>

\* Handler.fetchFromOpenStackWithProgress(progressChan) up to its call of
\* NewClient, for a channel of one of the capacities caps
StartWithProgress(caps) ==
    /\ pc = "idle"
    /\ pc' = "NewClient"
    /\ withProgress' = TRUE
    /\ \E cap \in caps :
        /\ chanCap' = cap
        /\ issued' = Append(issued, Msg("start", "", "", 0))
        /\ SendAll(progressChan, cap, <<Msg("start", "", "", 0)>>, progressChan')
    /\ UNCHANGED <<envProjectName, envProjectID, nScopes, projectsGetOK, path, client, report,
                   allProjects, allResources, idx, outcome, calls, received, plain, first,
                   storeVars, handlerVars, pureVars, sessionVars>>

\* Handler.fetchFromOpenStackWithProgress on any channel a caller may hand it
fetchFromOpenStackWithProgress == StartWithProgress(ChanCaps)

\* Handler.RefreshWithProgress: make(chan openstack.ProgressMessage, 100) and,
\* in its goroutine, fetchFromOpenStackWithProgress up to its call of NewClient
RefreshWithProgress == StartWithProgress({ProgressCap})

\* a second call of fetchFromOpenStack[WithProgress] a second after the
\* first returned, in which the slice of collected resources outlives the call
fetchFromOpenStackAgainAppending ==
    /\ pc = "done"
    /\ ~first.done
    /\ first' = [done |-> TRUE, report |-> report, outcome |-> outcome, calls |-> calls]
    /\ now' = now + 1
    /\ pc' = "NewClient"
    /\ path' = "none"
    /\ client' = [lb |-> FALSE, container |-> FALSE]
    /\ report' = EmptyReport
    /\ allProjects' = <<>>
    /\ idx' = 0
    /\ outcome' = "none"
    /\ calls' = <<>>
    /\ plain' = [report |-> EmptyReport, allResources |-> <<>>, outcome |-> "none"]
    /\ issued' = IF withProgress THEN <<Msg("start", "", "", 0)>> ELSE <<>>
    /\ SendAll(<<>>, chanCap, issued', progressChan')
    /\ UNCHANGED <<envProjectName, envProjectID, nScopes, projectsGetOK, withProgress,
                   allResources, chanCap, received, fs, saves, saved, lastOp, loaded,
                   pruned, handlerVars, pureVars, sessionVars>>

\* a second call of fetchFromOpenStack[WithProgress] a second after the
\* first returned: a new client, a new report, a new channel of the same
\* capacity, up to the call of NewClient
fetchFromOpenStackAgain ==
    /\ pc = "done"
    /\ ~first.done
    /\ first' = [done |-> TRUE, report |-> report, outcome |-> outcome, calls |-> calls]
    /\ now' = now + 1
    /\ pc' = "NewClient"
    /\ path' = "none"
    /\ client' = [lb |-> FALSE, container |-> FALSE]
    /\ report' = EmptyReport
    /\ allProjects' = <<>>
    /\ allResources' = <<>>
    /\ idx' = 0
    /\ outcome' = "none"
    /\ calls' = <<>>
    /\ plain' = [report |-> EmptyReport, allResources |-> <<>>, outcome |-> "none"]
    /\ issued' = IF withProgress THEN <<Msg("start", "", "", 0)>> ELSE <<>>
    /\ SendAll(<<>>, chanCap, issued', progressChan')
    /\ UNCHANGED <<envProjectName, envProjectID, nScopes, projectsGetOK, withProgress,
                   chanCap, received, fs, saves, saved, lastOp, loaded, pruned,
                   handlerVars, pureVars, sessionVars>>

\* openstack.NewClient, and what the handler does with its result
NewClient ==
    /\ pc = "NewClient"
    /\ \E F \in SessionFaultSets :
        /\ Log(<<Call("NewClient", SharedSession, 0, <<"auth", 0>> \notin F)>>)
        /\ IF <<"auth", 0>> \in F
           THEN /\ pc' = "done"
                /\ outcome' = "error"
                /\ plain' = [plain EXCEPT !.outcome = "error"]
                /\ UNCHANGED <<client, issued, progressChan>>
           ELSE /\ pc' = "GetAllResources"
                /\ client' = SessionClient(F)
                /\ Emit(<<Msg("progress", "", "", 0)>>)
                /\ UNCHANGED <<outcome, plain>>
    /\ UNCHANGED <<envProjectName, envProjectID, nScopes, projectsGetOK, withProgress, path, report,
                   allProjects, allResources, idx, chanCap, received, first, storeVars, handlerVars, pureVars, sessionVars>>

\* GetAllResources[WithProgress], single project mode, up to the call of
\* collectResourcesForProjects
SingleProjectMode ==
    /\ pc = "GetAllResources"
    /\ SingleProjectRequested
    /\ Log(IF envProjectID = "" THEN <<>>
           ELSE <<Call("projects.Get", SharedSession, 0, projectsGetOK)>>)
    /\ report' = [report EXCEPT !.GeneratedAt = now,
                                !.Projects = <<getCurrentProject(projectsGetOK)>>]
    /\ plain' = [plain EXCEPT !.report.GeneratedAt = now,
                              !.report.Projects = <<getCurrentProject(projectsGetOK)>>]
    /\ Emit(<<Msg("progress", "", "", 0)>>)
    /\ path' = "single"
    /\ pc' = "shared"
    /\ UNCHANGED <<envProjectName, envProjectID, nScopes, projectsGetOK, withProgress, client,
                   allProjects, allResources, idx, outcome, chanCap, received, first, storeVars, handlerVars, pureVars, sessionVars>>

\* what GetAllResources does once a project listing succeeded; the shared
\* client takes no further part in the run
StartProjects(ps) ==
    /\ allProjects' = ps
    /\ client' = [lb |-> FALSE, container |-> FALSE]
    /\ report' = [report EXCEPT !.GeneratedAt = now, !.Projects = ps]
    /\ plain' = [plain EXCEPT !.report.GeneratedAt = now, !.report.Projects = ps]
    /\ path' = "multi"
    /\ idx' = 1
    /\ pc' = "projects"

\* GetAllResources[WithProgress], multi-project mode, asking the CLI for the
\* projects whatever getProjectsViaAPI returned
getProjectsViaAPIThenCommand ==
    /\ pc = "GetAllResources"
    /\ ~SingleProjectRequested
    /\ \E ok \in BOOLEAN :
        /\ Log(<<Call("getProjectsViaAPI", "", 0, ok)>>)
        /\ pc' = "getProjectsViaCommand"
        /\ Emit(<<Msg("progress", "", "", 0), Msg("progress", "", "", 0)>>)
        /\ UNCHANGED <<allProjects, report, plain, path, idx, client>>
    /\ UNCHANGED <<envProjectName, envProjectID, nScopes, projectsGetOK, withProgress,
                   allResources, outcome, chanCap, received, first, storeVars, handlerVars, pureVars, sessionVars>>

\* GetAllResources[WithProgress], multi-project mode: getProjectsViaAPI, which
\* fails when the domain-scoped session or its project listing fails
getProjectsViaAPI ==
    /\ pc = "GetAllResources"
    /\ ~SingleProjectRequested
    /\ \E ok \in BOOLEAN :
        /\ Log(<<Call("getProjectsViaAPI", "", 0, ok)>>)
        /\ IF ok
           THEN /\ StartProjects(DiscoveredProjects(nScopes))
                /\ Emit(<<Msg("progress", "", "", 0), Msg("progress", "", "", 0)>>)
           ELSE /\ pc' = "getProjectsViaCommand"
                /\ Emit(<<Msg("progress", "", "", 0), Msg("progress", "", "", 0)>>)
                /\ UNCHANGED <<allProjects, report, plain, path, idx, client>>
    /\ UNCHANGED <<envProjectName, envProjectID, nScopes, projectsGetOK, withProgress,
                   allResources, outcome, chanCap, received, first, storeVars, handlerVars, pureVars, sessionVars>>

\* the CLI fallback: getProjectsViaCommand
getProjectsViaCommand ==
    /\ pc = "getProjectsViaCommand"
    /\ \E ok \in BOOLEAN :
        /\ Log(<<Call("cli", "", 0, ok)>>)
        /\ IF ok
           THEN /\ StartProjects(DiscoveredProjects(nScopes))
                /\ Emit(<<Msg("progress", "", "", 0)>>)
           ELSE /\ pc' = "fallback"
                /\ Emit(<<Msg("progress", "", "", 0)>>)
                /\ UNCHANGED <<allProjects, report, plain, path, idx, client>>
    /\ UNCHANGED <<envProjectName, envProjectID, nScopes, projectsGetOK, withProgress,
                   allResources, outcome, chanCap, received, first, storeVars, handlerVars, pureVars, sessionVars>>

\* the final fallback, returning the discovery error instead of inferring the
\* current project (a bug the code does not have)
FallbackCurrentProjectError ==
    /\ pc = "fallback"
    /\ pc' = "done"
    /\ outcome' = "error"
    /\ UNCHANGED <<envProjectName, envProjectID, nScopes, projectsGetOK, withProgress, path,
                   client, report, allProjects, allResources, idx, calls, issued,
                   progressChan, chanCap, received, plain, first, storeVars,
                   handlerVars, pureVars, sessionVars>>

\* the final fallback to the current project
FallbackCurrentProject ==
    /\ pc = "fallback"
    /\ Log(IF envProjectID = "" THEN <<>>
           ELSE <<Call("projects.Get", SharedSession, 0, projectsGetOK)>>)
    /\ report' = [report EXCEPT !.GeneratedAt = now,
                                !.Projects = <<getCurrentProject(projectsGetOK)>>]
    /\ plain' = [plain EXCEPT !.report.GeneratedAt = now,
                              !.report.Projects = <<getCurrentProject(projectsGetOK)>>]
    /\ path' = "fallback"
    /\ pc' = "shared"
    /\ UNCHANGED <<envProjectName, envProjectID, nScopes, projectsGetOK, withProgress, client,
                   allProjects, allResources, idx, outcome, issued, progressChan,
                   chanCap, received, first, storeVars, handlerVars, pureVars, sessionVars>>

\* the per-project loop body after getResourcesForProject returned r, ending
\* the run on a failed project (a bug the code does not have)
AfterProjectAbort(rep, all, i, r) ==
    IF r.err
    THEN [report |-> rep, allResources |-> all, idx |-> i, pc |-> "done",
          outcome |-> "error"]
    ELSE [report |-> rep, allResources |-> all \o r.resources, idx |-> i + 1,
          pc |-> "projects", outcome |-> "none"]

\* the per-project loop body after getResourcesForProject returned r, dropping
\* a failed project from the report (a bug the code does not have)
AfterProjectUnlist(rep, all, i, r) ==
    IF r.err
    THEN [report |-> [rep EXCEPT !.Projects =
                         SelectSeq(@, LAMBDA p : p # rep.Projects[i])],
          allResources |-> all, idx |-> i + 1, pc |-> "projects",
          outcome |-> "none"]
    ELSE [report |-> rep, allResources |-> all \o r.resources, idx |-> i + 1,
          pc |-> "projects", outcome |-> "none"]

\* the per-project loop body after getResourcesForProject returned r:
\* "continue" on an error, append otherwise
AfterProject(rep, all, i, r) ==
    [report |-> rep,
     allResources |-> IF r.err THEN all ELSE all \o r.resources,
     idx |-> i + 1, pc |-> "projects", outcome |-> "none"]

\* one turn of the project loop that reports project_complete whether or not
\* the project's resources could be collected
CollectProjectAlwaysComplete ==
    /\ pc = "projects"
    /\ idx <= Len(allProjects)
    /\ \E F \in ProjectFaultSets :
        /\ FailedCalls(calls) + Cardinality(F) <= FailuresLeft
        /\ \E r \in {IF withProgress
                    THEN getResourcesForProjectWithProgress(allProjects[idx], F)
                    ELSE getResourcesForProject(allProjects[idx], F)} :
             \E after \in {AfterProject(report, allResources, idx, r)} :
                LET project == allProjects[idx]
                    twin == AfterProject(plain.report, plain.allResources, idx,
                                IF withProgress
                                THEN getResourcesForProject(allProjects[idx], F)
                                ELSE r)
                IN  /\ Log(r.calls)
                    /\ plain' = [report |-> twin.report,
                                 allResources |-> twin.allResources,
                                 outcome |-> twin.outcome]
                    /\ Emit(<<Msg("project_start", project.Name, "", 0)>>
                            \o r.events
                            \o <<Msg("project_complete", project.Name, "",
                                     Len(r.resources))>>)
                    /\ report' = after.report
                    /\ allResources' = after.allResources
                    /\ idx' = after.idx
                    /\ pc' = after.pc
                    /\ outcome' = after.outcome
    /\ UNCHANGED <<envProjectName, envProjectID, nScopes, projectsGetOK, withProgress, path, client,
                   allProjects, chanCap, received, first, storeVars, handlerVars, pureVars, sessionVars>>

\* one iteration of the loop over allProjects
CollectProject ==
    /\ pc = "projects"
    /\ idx <= Len(allProjects)
    /\ \E F \in ProjectFaultSets :
        /\ FailedCalls(calls) + Cardinality(F) <= FailuresLeft
        /\ \E r \in {IF withProgress
                    THEN getResourcesForProjectWithProgress(allProjects[idx], F)
                    ELSE getResourcesForProject(allProjects[idx], F)} :
             \E after \in {AfterProject(report, allResources, idx, r)} :
                LET project == allProjects[idx]
                    twin == AfterProject(plain.report, plain.allResources, idx,
                                IF withProgress
                                THEN getResourcesForProject(allProjects[idx], F)
                                ELSE r)
                IN  /\ Log(r.calls)
                    /\ plain' = [report |-> twin.report,
                                 allResources |-> twin.allResources,
                                 outcome |-> twin.outcome]
                    /\ Emit(<<Msg("project_start", project.Name, "", 0)>>
                            \o r.events
                            \o <<IF r.err
                                 THEN Msg("project_error", project.Name, "", 0)
                                 ELSE Msg("project_complete", project.Name, "",
                                          Len(r.resources))>>)
                    /\ report' = after.report
                    /\ allResources' = after.allResources
                    /\ idx' = after.idx
                    /\ pc' = after.pc
                    /\ outcome' = after.outcome
    /\ UNCHANGED <<envProjectName, envProjectID, nScopes, projectsGetOK, withProgress, path, client,
                   allProjects, chanCap, received, first, storeVars, handlerVars, pureVars, sessionVars>>

\* after the loop: report.Resources, report.Summary, the summary event
FinishProjects ==
    /\ pc = "projects"
    /\ idx > Len(allProjects)
    /\ report' = [report EXCEPT
                     !.Resources = allResources,
                     !.Summary = calculateSummary(allResources, Len(report.Projects))]
    /\ plain' = [plain EXCEPT
                    !.report.Resources = plain.allResources,
                    !.report.Summary = calculateSummary(plain.allResources,
                                                        Len(plain.report.Projects)),
                    !.outcome = "report"]
    /\ Emit(<<Msg("summary", "", "", Len(allResources))>>)
    /\ outcome' = "report"
    /\ pc' = "done"
    /\ UNCHANGED <<envProjectName, envProjectID, nScopes, projectsGetOK, withProgress, path, client,
                   allProjects, allResources, idx, calls, chanCap, received, first, storeVars, handlerVars, pureVars, sessionVars>>

\* collectResourcesForProjects / collectResourcesForProjectsWithProgress
collectResourcesForProjects ==
    /\ pc = "shared"
    /\ \E F \in SharedFaultSets :
        /\ FailedCalls(calls) + Cardinality(F) <= FailuresLeft
        /\ SharedEffective(F, ~SingleProjectRequested)
        /\ \E r \in {IF withProgress
                    THEN SharedCollectors(1, ProjectNamesOf(report.Projects[1]), F,
                             [err |-> FALSE, resources |-> <<>>, events |-> <<>>,
                              calls |-> <<>>])
                    ELSE PlainSharedCollectors(1, ProjectNamesOf(report.Projects[1]), F,
                             [err |-> FALSE, resources |-> <<>>, events |-> <<>>,
                              calls |-> <<>>])} :
            /\ Log(r.calls)
            /\ \E twin \in {IF withProgress
                           THEN PlainSharedCollectors(1,
                                    ProjectNamesOf(plain.report.Projects[1]), F,
                                    [err |-> FALSE, resources |-> <<>>, events |-> <<>>,
                                     calls |-> <<>>])
                           ELSE r} :
                 plain' = IF twin.err THEN [plain EXCEPT !.outcome = "error"]
                          ELSE [plain EXCEPT
                                   !.report.Resources = twin.resources,
                                   !.report.Summary =
                                       calculateSummary(twin.resources,
                                                        Len(plain.report.Projects)),
                                   !.outcome = "report"]
            /\ Emit(r.events)
            /\ report' = IF r.err THEN report
                         ELSE [report EXCEPT
                                  !.Resources = r.resources,
                                  !.Summary = calculateSummary(r.resources,
                                                               Len(report.Projects))]
            /\ outcome' = IF r.err THEN "error" ELSE "report"
    /\ pc' = "done"
    /\ UNCHANGED <<envProjectName, envProjectID, nScopes, projectsGetOK, withProgress, path, client,
                   allProjects, allResources, idx, chanCap, received, first, storeVars, handlerVars, pureVars, sessionVars>>

(***************************************************************************)
(* The snapshot store: internal/storage.  The data directory is a function *)
(* from file names to files [data, mtime].                                 *)
(***************************************************************************)
\* filepath.Join(s.dataPath, reportFile)
reportPath == [backup |-> FALSE, unix |-> 0]

\* filepath.Join(s.dataPath, fmt.Sprintf("%s%d_%s", backupPrefix, unix, reportFile))
backupPath(unix) == [backup |-> TRUE, unix |-> unix]

\* encoding/json on one models.Resource: Properties (interface{}) is written
\* as a JSON object, which does not carry the Go type of the value
MarshalResource(r) ==
    [id |-> r.ID, type |-> r.Type, project_id |-> r.ProjectID,
     project_name |-> r.ProjectName, properties |-> [ID |-> r.Properties.ID]]

\* json.MarshalIndent(report, "", "  ")
Marshal(rep) ==
    [complete |-> TRUE,
     generated_at |-> rep.GeneratedAt,
     projects |-> rep.Projects,
     resources |-> [i \in 1..Len(rep.Resources) |-> MarshalResource(rep.Resources[i])],
     summary |-> rep.Summary]

\* what an os.WriteFile that fails while writing leaves in the file
TruncatedDocument ==
    [complete |-> FALSE, generated_at |-> 0, projects |-> <<>>, resources |-> <<>>,
     summary |-> ZeroSummary]

\* encoding/json into Resource.Properties (interface{}): a JSON object is
\* decoded as map[string]interface{}
UnmarshalResource(o) ==
    [ID |-> o.id, Type |-> o.type, ProjectID |-> o.project_id,
     ProjectName |-> o.project_name,
     Properties |-> [GoType |-> "map[string]interface {}", ID |-> o.properties.ID]]

\* json.Unmarshal(data, &report) on a complete document
Unmarshal(doc) ==
    [GeneratedAt |-> doc.generated_at,
     Projects |-> doc.projects,
     Resources |-> [i \in 1..Len(doc.resources) |-> UnmarshalResource(doc.resources[i])],
     Summary |-> doc.summary]

\* os.WriteFile: creates or replaces the file
WriteFile(files, name, doc, t) ==
    [n \in DOMAIN files \cup {name} |->
        IF n = name THEN [data |-> doc, mtime |-> t] ELSE files[n]]

\* os.Rename: replaces the target when it exists; the file keeps its mtime
Rename(files, old, new) ==
    [n \in (DOMAIN files \ {old}) \cup {new} |->
        IF n = new THEN files[old] ELSE files[n]]

\* os.Remove of each of names
Remove(files, names) == [n \in DOMAIN files \ names |-> files[n]]

\* (s *Storage) ReportExists
ReportExists(files) == reportPath \in DOMAIN files

\* a report handed to SaveReport: the stamp-th report one writer built, with
\* the first n networks collected from project beta
SampleReport(stamp, n) ==
    LET p == Project(2)
        rs == SubSeq(<<Normalize(RawList(2, 5)[1], 5, ProjectNamesOf(p), p)>>, 1, n)
    IN  [GeneratedAt |-> stamp, Projects |-> <<p>>, Resources |-> rs,
         Summary |-> calculateSummary(rs, 1)]

\* the results a SaveReport call may have: nil, or the error of os.Rename, of
\* os.WriteFile opening the file, of os.WriteFile writing it
SaveResults == {"ok", "rename", "open", "write"}

\* the data directory SaveReport(rep) leaves at time t
SaveReportFiles(files, t, rep, result) ==
    LET moved == IF ReportExists(files) THEN Rename(files, reportPath, backupPath(t))
                 ELSE files
    IN  CASE result = "rename" -> files
          [] result = "open"   -> moved
          [] result = "write"  -> WriteFile(moved, reportPath, TruncatedDocument, t)
          [] OTHER             -> WriteFile(moved, reportPath, Marshal(rep), t)

\* the error SaveReport returns
SaveReportError(result) ==
    CASE result = "rename" -> "failed to create backup"
      [] result = "ok"     -> ""
      [] OTHER             -> "failed to write report file"

\* no LoadReport result at hand
NotLoaded == [err |-> "", report |-> EmptyReport]

\* (s *Storage) SaveReport
SaveReport ==
    /\ saves < MaxSaves
    /\ \E n \in 0..1, result \in SaveResults :
        /\ result = "rename" => ReportExists(fs)
        /\ result # "ok" => saves - Len(saved) < MaxSaveFailures
        /\ fs' = SaveReportFiles(fs, now, SampleReport(saves + 1, n), result)
        /\ saved' = IF result = "ok" THEN Append(saved, SampleReport(saves + 1, n))
                    ELSE saved
        /\ lastOp' = [op |-> "SaveReport", err |-> SaveReportError(result)]
    /\ saves' = saves + 1
    /\ loaded' = NotLoaded
    /\ UNCHANGED <<now, pruned, runVars, handlerVars, pureVars, sessionVars>>

\* SaveReport of one writer, step by step, as a reader in another goroutine
\* sees the data directory.  First os.Stat and os.Rename: the canonical file,
\* when there is one, gets its backup name.
SaveReportBackup ==
    /\ saving.step = "idle"
    /\ saves < MaxSaves
    /\ \E n \in 0..1 :
        saving' = [step |-> "renamed", report |-> SampleReport(saves + 1, n)]
    /\ fs' = IF ReportExists(fs) THEN Rename(fs, reportPath, backupPath(now)) ELSE fs
    /\ UNCHANGED <<now, saves, saved, lastOp, loaded, pruned, runVars, handlerVars,
                   pureVars, cancelled, progressVars>>

\* os.WriteFile opens the canonical file with O_CREATE|O_TRUNC: it exists and
\* holds no complete document
SaveReportOpen ==
    /\ saving.step = "renamed"
    /\ saving' = [saving EXCEPT !.step = "opened"]
    /\ fs' = WriteFile(fs, reportPath, TruncatedDocument, now)
    /\ UNCHANGED <<now, saves, saved, lastOp, loaded, pruned, runVars, handlerVars,
                   pureVars, cancelled, progressVars>>

\* os.WriteFile has written the document and SaveReport returns nil
SaveReportWritten ==
    /\ saving.step = "opened"
    /\ saving' = [step |-> "idle", report |-> EmptyReport]
    /\ fs' = WriteFile(fs, reportPath, Marshal(saving.report), now)
    /\ saved' = Append(saved, saving.report)
    /\ saves' = saves + 1
    /\ lastOp' = [op |-> "SaveReport", err |-> ""]
    /\ loaded' = NotLoaded
    /\ UNCHANGED <<now, pruned, runVars, handlerVars, pureVars, cancelled, progressVars>>

\* the (report, error) pair LoadReport returns
LoadResult(files) ==
    IF ~ReportExists(files)
    THEN [err |-> "no saved report found", report |-> EmptyReport]
    ELSE IF ~files[reportPath].data.complete
    THEN [err |-> "failed to unmarshal report", report |-> EmptyReport]
    ELSE [err |-> "", report |-> Unmarshal(files[reportPath].data)]

\* (s *Storage) LoadReport
LoadReport ==
    /\ loaded' = LoadResult(fs)
    /\ lastOp' = [op |-> "LoadReport", err |-> LoadResult(fs).err]
    /\ UNCHANGED <<fs, now, saves, saved, pruned, runVars, handlerVars, pureVars, sessionVars>>

\* the backup files CleanupBackups finds older than maxAge
OldBackups(files, t, maxAge) ==
    {n \in DOMAIN files : n.backup /\ t - files[n].mtime > maxAge}

\* (s *Storage) CleanupBackups(7 * 24 * time.Hour): removes the old backups in
\* directory order (by name, which is by time for the names used here) and
\* stops at the first os.Remove that fails
CleanupBackups ==
    /\ \E ok \in BOOLEAN :
        LET old == OldBackups(fs, now, BackupMaxAge)
        IN  IF ok \/ old = {}
            THEN /\ fs' = Remove(fs, old)
                 /\ pruned' = (pruned \/ old # {})
                 /\ lastOp' = [op |-> "CleanupBackups", err |-> ""]
            ELSE \E failing \in old :
                   LET removed == {n \in old : n.unix < failing.unix}
                   IN  /\ fs' = Remove(fs, removed)
                       /\ pruned' = (pruned \/ removed # {})
                       /\ lastOp' = [op |-> "CleanupBackups",
                                     err |-> "failed to remove backup file"]
    /\ loaded' = NotLoaded
    /\ UNCHANGED <<now, saves, saved, runVars, handlerVars, pureVars, sessionVars>>

\* time.Now().Unix() advances: by a second, or past the backup retention
Tick ==
    /\ \E d \in {1, BackupMaxAge} :
        /\ d = 1 => now % BackupMaxAge < MaxTicks
        /\ d = BackupMaxAge => now < BackupMaxAge
        /\ now' = now + d
    /\ UNCHANGED <<fs, saves, saved, lastOp, loaded, pruned, runVars, handlerVars, pureVars, sessionVars>>

\* an empty data directory, as Initialize leaves it on first start
StoreIdle ==
    /\ fs = <<>>
    /\ now = 0
    /\ saves = 0
    /\ saved = <<>>
    /\ lastOp = [op |-> "none", err |-> ""]
    /\ loaded = NotLoaded
    /\ pruned = FALSE

(***************************************************************************)
(* The HTTP handlers (internal/handlers).                                  *)
(***************************************************************************)
\* no response written yet
NoResponse == [status |-> 0, report |-> EmptyReport]

\* no request being served
HandlerIdle ==
    /\ request = "none"
    /\ response = NoResponse

\* what SaveReport(rep) does to the store, whatever its result, which the
\* handlers only log
SaveAndLog(rep) ==
    \E result \in SaveResults :
        /\ result = "rename" => ReportExists(fs)
        /\ fs' = SaveReportFiles(fs, now, rep, result)
        /\ saved' = IF result = "ok" THEN Append(saved, rep) ELSE saved
        /\ saves' = saves + 1
        /\ lastOp' = [op |-> "SaveReport", err |-> SaveReportError(result)]

\* Handler.GetResources up to its first return or its call of NewClient: the
\* cached report when it loads, fetchFromOpenStack otherwise
GetResources ==
    /\ request = "none"
    /\ pc = "idle"
    /\ request' = "GetResources"
    /\ loaded' = LoadResult(fs)
    /\ lastOp' = [op |-> "LoadReport", err |-> LoadResult(fs).err]
    /\ IF LoadResult(fs).err = ""
       THEN /\ response' = [status |-> 200, report |-> LoadResult(fs).report]
            /\ UNCHANGED pc
       ELSE /\ pc' = "NewClient"
            /\ UNCHANGED response
    /\ withProgress' = FALSE
    /\ UNCHANGED <<envProjectName, envProjectID, nScopes, projectsGetOK, path, client,
                   report, allProjects, allResources, idx, outcome, calls, issued,
                   progressChan, chanCap, received, plain, first, fs, now, saves, saved,
                   pruned, pureVars, sessionVars>>

\* Handler.GetResources once fetchFromOpenStack returned, answering an empty
\* report when the fetch failed (a bug the code does not have)
GetResourcesFetchedEmpty ==
    /\ request = "GetResources"
    /\ pc = "done"
    /\ response = NoResponse
    /\ SaveAndLog(IF outcome = "error" THEN EmptyReport ELSE report)
    /\ response' = [status |-> 200,
                    report |-> IF outcome = "error" THEN EmptyReport ELSE report]
    /\ UNCHANGED <<runVars, now, loaded, pruned, request, pureVars, sessionVars>>

\* Handler.GetResources once fetchFromOpenStack returned
GetResourcesFetched ==
    /\ request = "GetResources"
    /\ pc = "done"
    /\ response = NoResponse
    /\ IF outcome = "error"
       THEN /\ response' = [status |-> 500, report |-> EmptyReport]
            /\ UNCHANGED <<fs, saves, saved, lastOp>>
       ELSE /\ SaveAndLog(report)
            /\ response' = [status |-> 200, report |-> report]
    /\ UNCHANGED <<runVars, now, loaded, pruned, request, pureVars, sessionVars>>

\* the data directories CleanupBackups may leave: every old backup removed,
\* or those before the first os.Remove that fails
CleanupResults(files, t) ==
    LET old == OldBackups(files, t, BackupMaxAge)
    IN  {Remove(files, old)}
            \cup {Remove(files, {n \in old : n.unix < failing.unix}) : failing \in old}

\* SaveReport(rep) and CleanupBackups(7 * 24 * time.Hour) as the refresh
\* handlers call them: the error of either is logged and nothing else
SaveAndCleanup(rep) ==
    \E result \in SaveResults :
        /\ result = "rename" => ReportExists(fs)
        /\ \E files \in CleanupResults(SaveReportFiles(fs, now, rep, result), now) :
            /\ fs' = files
            /\ pruned' = (pruned \/ files # SaveReportFiles(fs, now, rep, result))
        /\ saved' = IF result = "ok" THEN Append(saved, rep) ELSE saved
        /\ saves' = saves + 1
        /\ lastOp' = [op |-> "SaveReport", err |-> SaveReportError(result)]

\* Handler.RefreshResources once fetchFromOpenStack returned: 500 on its
\* error, otherwise SaveReport, CleanupBackups and 200 with the generation
\* time and the number of resources (no report in the body)
RefreshResources ==
    /\ request = "none"
    /\ pc = "done"
    /\ ~withProgress
    /\ request' = "RefreshResources"
    /\ IF outcome = "error"
       THEN /\ response' = [status |-> 500, report |-> EmptyReport]
            /\ UNCHANGED <<fs, saves, saved, lastOp, pruned>>
       ELSE /\ SaveAndCleanup(report)
            /\ response' = [status |-> 200, report |-> EmptyReport]
    /\ UNCHANGED <<runVars, now, loaded, pureVars, sessionVars>>

\* the goroutine of Handler.RefreshWithProgress once
\* fetchFromOpenStackWithProgress returned: an error event on its error,
\* otherwise SaveReport, CleanupBackups and the complete event
RefreshWithProgressReturn ==
    /\ request = "none"
    /\ pc = "done"
    /\ withProgress
    /\ request' = "RefreshWithProgress"
    /\ IF outcome = "error"
       THEN /\ Emit(<<Msg("error", "", "", 0)>>)
            /\ UNCHANGED <<fs, saves, saved, lastOp, pruned>>
       ELSE /\ SaveAndCleanup(report)
            /\ Emit(<<Msg("complete", "", "", 0)>>)
    /\ UNCHANGED <<envProjectName, envProjectID, nScopes, projectsGetOK, pc, withProgress,
                   path, client, report, allProjects, allResources, idx, outcome, calls,
                   chanCap, received, plain, first, now, loaded, response, pureVars,
                   sessionVars>>

\* Handler.ExportToPDF: 404 when ReportExists is false or LoadReport fails,
\* otherwise the PDF made of the loaded report
ExportToPDF ==
    /\ request = "none"
    /\ request' = "ExportToPDF"
    /\ response' = IF ReportExists(fs) /\ LoadResult(fs).err = ""
                   THEN [status |-> 200, report |-> LoadResult(fs).report]
                   ELSE [status |-> 404, report |-> EmptyReport]
    /\ UNCHANGED <<runVars, storeVars, pureVars, sessionVars>>

\* one turn of the loop of Handler.GetProgress: an event is taken from the
\* progress channel of the running refresh and written to the stream
GetProgress ==
    /\ withProgress
    /\ chanCap # NilChan
    /\ progressChan # <<>>
    /\ received < MaxReads
    /\ progressChan' = Tail(progressChan)
    /\ received' = received + 1
    /\ UNCHANGED <<envProjectName, envProjectID, nScopes, projectsGetOK, pc, withProgress,
                   path, client, report, allProjects, allResources, idx, outcome, calls,
                   issued, chanCap, plain, first, storeVars, handlerVars, pureVars, sessionVars>>

(***************************************************************************)
(* The context of the request that asked for the refresh.                  *)
(***************************************************************************)
\* a session no RefreshWithProgress has made yet; its channel is channel s
NoSession ==
    [state |-> "none", id |-> 0, chan |-> <<>>, sent |-> 0, closes |-> 0, lateSends |-> 0]

\* a GetProgress request not made yet
NoStream == [state |-> "none", chan |-> 0]

\* the context is not done, no save in progress, no progress session
SessionIdle ==
    /\ cancelled = FALSE
    /\ saving = [step |-> "idle", report |-> EmptyReport]
    /\ sessions = [s \in 1..MaxSessions |-> NoSession]
    /\ progressChannels = <<>>
    /\ streams = [r \in 1..MaxStreams |-> NoStream]

\* c.Request.Context() is done while the collection runs: the caller went
\* away.  No code of the collection reads the context; Handler.GetProgress
\* alone selects on it, to end its stream.
ContextDone ==
    /\ pc \notin {"idle", "done"}
    /\ ~cancelled
    /\ cancelled' = TRUE
    /\ UNCHANGED <<runVars, storeVars, handlerVars, pureVars, saving, progressVars>>

(***************************************************************************)
(* Progress sessions: Handler.RefreshWithProgress, its goroutine, and      *)
(* Handler.GetProgress, several at a time.  The channel of session s is    *)
(* channel s; the collection inside the goroutine is a sequence of sends.  *)
(***************************************************************************)
\* the values time.Now().UnixNano() may give to the requests: the clock does
\* not go back, and two requests may read the same value
ClockReadings(s) ==
    {t \in 1..MaxSessions : \A q \in 1..(s - 1) : sessions[q].id <= t}

\* select { case progressChan <- msg: default: } on channel s; a send on a
\* closed channel is counted
SessionSendTo(s, type) ==
    [sessions EXCEPT
        ![s].chan = IF Len(@) < ProgressCap /\ sessions[s].closes = 0
                    THEN Append(@, type) ELSE @,
        ![s].lateSends = IF sessions[s].closes > 0 THEN @ + 1 ELSE @]

\* Handler.RefreshWithProgress: the channel is made and stored under
\* "session_<UnixNano>", the goroutine is started (its first send is the
\* start event of fetchFromOpenStackWithProgress), the id is answered
RefreshWithProgressSession(s) ==
    /\ sessions[s].state = "none"
    /\ \A q \in 1..(s - 1) : sessions[q].state # "none"
    /\ \E id \in ClockReadings(s) :
        /\ progressChannels' =
               [i \in DOMAIN progressChannels \cup {id} |->
                   IF i = id THEN s ELSE progressChannels[i]]
        /\ sessions' = [sessions EXCEPT
               ![s] = [state |-> "collecting", id |-> id, chan |-> <<"start">>,
                       sent |-> 0, closes |-> 0, lateSends |-> 0]]
    /\ UNCHANGED <<runVars, storeVars, handlerVars, pureVars, cancelled, saving, streams>>

\* the goroutine, inside GetAllResourcesWithProgress: one SendProgress
SessionSend(s) ==
    /\ sessions[s].state = "collecting"
    /\ sessions[s].sent < MaxEvents
    /\ sessions' = [SessionSendTo(s, "progress") EXCEPT ![s].sent = @ + 1]
    /\ UNCHANGED <<runVars, storeVars, handlerVars, pureVars, cancelled, saving,
                   progressChannels, streams>>

\* the goroutine: fetchFromOpenStackWithProgress returns, and the error event
\* or, after SaveReport and CleanupBackups, the complete event is sent
SessionReturn(s) ==
    /\ sessions[s].state = "collecting"
    /\ \E type \in {"error", "complete"} :
        sessions' = [SessionSendTo(s, type) EXCEPT ![s].state = "returned"]
    /\ UNCHANGED <<runVars, storeVars, handlerVars, pureVars, cancelled, saving,
                   progressChannels, streams>>

\* the deferred function, under h.mu: delete(h.progressChannels, sessionID)
SessionDelete(s) ==
    /\ sessions[s].state = "returned"
    /\ progressChannels' =
           [i \in DOMAIN progressChannels \ {sessions[s].id} |-> progressChannels[i]]
    /\ sessions' = [sessions EXCEPT ![s].state = "deleted"]
    /\ UNCHANGED <<runVars, storeVars, handlerVars, pureVars, cancelled, saving, streams>>

\* the deferred function, after the unlock: close(progressChan)
SessionClose(s) ==
    /\ sessions[s].state = "deleted"
    /\ sessions' = [sessions EXCEPT ![s].state = "closed", ![s].closes = @ + 1]
    /\ UNCHANGED <<runVars, storeVars, handlerVars, pureVars, cancelled, saving,
                   progressChannels, streams>>

\* Handler.GetProgress up to its loop: 404 when h.progressChannels has no
\* channel under the session id asked for
GetProgressLookup(r) ==
    /\ streams[r].state = "none"
    /\ \E id \in 1..MaxSessions :
        streams' = [streams EXCEPT
            ![r] = IF id \in DOMAIN progressChannels
                   THEN [state |-> "attached", chan |-> progressChannels[id]]
                   ELSE [state |-> "notfound", chan |-> 0]]
    /\ UNCHANGED <<runVars, storeVars, handlerVars, pureVars, cancelled, saving,
                   sessions, progressChannels>>

\* one turn of the loop of Handler.GetProgress: an event is received and
\* written, and the complete or error event ends the stream; or the channel
\* is closed and empty, which ends the stream
GetProgressReceive(r) ==
    /\ streams[r].state = "attached"
    /\ LET c == streams[r].chan
       IN  IF sessions[c].chan # <<>>
           THEN /\ sessions' = [sessions EXCEPT ![c].chan = Tail(@)]
                /\ streams' = [streams EXCEPT
                       ![r].state = IF Head(sessions[c].chan) \in {"complete", "error"}
                                    THEN "ended" ELSE @]
           ELSE /\ sessions[c].closes > 0
                /\ streams' = [streams EXCEPT ![r].state = "ended"]
                /\ UNCHANGED sessions
    /\ UNCHANGED <<runVars, storeVars, handlerVars, pureVars, cancelled, saving,
                   progressChannels>>

\* the loop of Handler.GetProgress: case <-c.Request.Context().Done()
GetProgressDone(r) ==
    /\ streams[r].state = "attached"
    /\ streams' = [streams EXCEPT ![r].state = "ended"]
    /\ UNCHANGED <<runVars, storeVars, handlerVars, pureVars, cancelled, saving,
                   sessions, progressChannels>>

(***************************************************************************)
(* Functions of the client applied to inputs of their own.                 *)
(***************************************************************************)
\* the calls the enrichment helpers make
LookupOps == {"flavors.Get", "servers.Get", "ports.Get", "subnets.List"}

\* server.Flavor of the one server: nil, a map without "id", a map with id f1
FlavorRefs == {"nil", "no-id", "f1"}

\* volume.Attachments of the one volume: the server ids, "" for none
AttachmentLists ==
    UNION {[1..len -> {"", "s1", "s2"}] : len \in 0..MaxAttachments}

\* the port of the one floating IP: none, or p1 with its device
Ports ==
    {[ID |-> "", DeviceOwner |-> "", DeviceID |-> ""],
     [ID |-> "p1", DeviceOwner |-> "compute:nova", DeviceID |-> "s1"],
     [ID |-> "p1", DeviceOwner |-> "network:router_gateway", DeviceID |-> "r1"],
     [ID |-> "p1", DeviceOwner |-> "compute:nova", DeviceID |-> ""]}

\* the records of one project and the answers of the origin: whether the list
\* call of the collector succeeds and which lookups fail
LookupInputs ==
    [listOK : BOOLEAN, failing : SUBSET LookupOps, flavor : FlavorRefs,
     attachments : AttachmentLists, port : Ports]

\* no lookup answers drawn, nothing collected from them
NoLookups ==
    [listOK |-> TRUE, failing |-> {}, flavor |-> "nil", attachments |-> <<>>,
     port |-> [ID |-> "", DeviceOwner |-> "", DeviceID |-> ""]]

\* the name the origin holds for an id
NameOf(id) == "name-of-" \o id

\* (c *Client) getFlavorDetails: <<flavor name, flavor id>>
getFlavorDetails(flavorRef, failing) ==
    IF flavorRef = "nil" THEN <<"Unknown", "">>
    ELSE LET flavorID == IF flavorRef = "no-id" THEN "" ELSE flavorRef
         IN  IF flavorID = "" THEN <<"Unknown", "">>
             ELSE IF "flavors.Get" \in failing THEN <<"Unknown", flavorID>>
             ELSE <<NameOf(flavorID), flavorID>>

\* (c *Client) getServerName, which gives up the id when the lookup fails
getServerNameOrNothing(serverID, failing) ==
    IF serverID = "" THEN ""
    ELSE IF "servers.Get" \in failing THEN ""
    ELSE NameOf(serverID)

\* (c *Client) getServerName
getServerName(serverID, failing) ==
    IF serverID = "" THEN ""
    ELSE IF "servers.Get" \in failing THEN serverID
    ELSE NameOf(serverID)

\* (c *Client) getVolumeAttachments on a []volumes.Attachment
getVolumeAttachments(attachments, failing) ==
    [n \in 1..Len(attachments) |->
        [ServerID |-> attachments[n],
         ServerName |-> IF attachments[n] # ""
                        THEN getServerName(attachments[n], failing)
                        ELSE ""]]

\* (c *Client) getAttachedResourceName
getAttachedResourceName(port, failing) ==
    IF port.ID = "" THEN ""
    ELSE IF "ports.Get" \in failing THEN ""
    ELSE IF port.DeviceID # ""
    THEN LET serverName == getServerName(port.DeviceID, failing)
         IN  IF port.DeviceOwner = "compute:nova" /\ serverName # ""
             THEN serverName
             ELSE port.DeviceID
    ELSE ""

\* (c *Client) getSubnetsForNetwork: the network has one subnet
getSubnetsForNetwork(networkID, failing) ==
    IF "subnets.List" \in failing THEN <<>>
    ELSE <<[ID |-> "sub1", Name |-> NameOf("sub1")]>>

\* what a collector returns: nil, err when its list call failed
CollectorResult(in, rs) ==
    IF in.listOK THEN [err |-> FALSE, resources |-> rs]
    ELSE [err |-> TRUE, resources |-> <<>>]

\* (c *Client) getServersForSingleProject on a project with one server
getServersForSingleProject ==
    /\ collected = <<>>
    /\ \E flavor \in {getFlavorDetails(lookups.flavor, lookups.failing)} :
         collected' = <<[collector |-> "servers"] @@
                         CollectorResult(lookups,
                             <<[ID |-> "srv", Type |-> "server",
                                Properties |-> [FlavorName |-> flavor[1],
                                                FlavorID |-> flavor[2]]]>>)>>
    /\ UNCHANGED <<runVars, storeVars, handlerVars, sessionVars, resources, applied, lookups>>

\* (c *Client) getVolumesForSingleProject on a project with one volume
getVolumesForSingleProject ==
    /\ collected = <<>>
    /\ \E attachments \in {getVolumeAttachments(lookups.attachments, lookups.failing)} :
         collected' = <<[collector |-> "volumes"] @@
                         CollectorResult(lookups,
                             <<[ID |-> "vol", Type |-> "volume",
                                Properties |->
                                    [Attachments |-> attachments,
                                     AttachedTo |-> IF Len(attachments) > 0
                                                    THEN attachments[1].ServerName
                                                    ELSE ""]]>>)>>
    /\ UNCHANGED <<runVars, storeVars, handlerVars, sessionVars, resources, applied, lookups>>

\* (c *Client) getFloatingIPs on a project with one floating IP
getFloatingIPs ==
    /\ collected = <<>>
    /\ collected' = <<[collector |-> "floating_ips"] @@
                      CollectorResult(lookups,
                          <<[ID |-> "fip", Type |-> "floating_ip",
                             Properties |->
                                 [PortID |-> lookups.port.ID,
                                  AttachedResourceName |->
                                      getAttachedResourceName(lookups.port,
                                                              lookups.failing)]]>>)>>
    /\ UNCHANGED <<runVars, storeVars, handlerVars, sessionVars, resources, applied, lookups>>

\* (c *Client) getNetworks on a project with one network
getNetworks ==
    /\ collected = <<>>
    /\ collected' = <<[collector |-> "networks"] @@
                      CollectorResult(lookups,
                          <<[ID |-> "net", Type |-> "network",
                             Properties |->
                                 [Subnets |-> getSubnetsForNetwork("net",
                                                  lookups.failing)]]>>)>>
    /\ UNCHANGED <<runVars, storeVars, handlerVars, sessionVars, resources, applied, lookups>>

\* none of the functions was handed an input
PureIdle ==
    /\ resources = <<>>
    /\ applied = <<>>
    /\ lookups = NoLookups
    /\ collected = <<>>

\* Resource.Type values: those the collectors write and one they do not
InputTypes == ResourceTypes \cup {"port"}

\* the n-th resource of a list, of type T; calculateSummary reads only Type
InputResource(n, T) ==
    [ID |-> <<0, 0, n>>, Type |-> T, ProjectID |-> "id-alpha", ProjectName |-> "alpha",
     Properties |-> [GoType |-> "none", ID |-> <<0, 0, n>>]]

\* the resource lists of at most MaxLen resources
InputLists ==
    UNION {{[n \in 1..len |-> InputResource(n, types[n])] :
               types \in [1..len -> InputTypes]} : len \in 0..MaxLen}

\* the orders a list of len elements can be put in
Orders(len) ==
    {f \in [1..len -> 1..len] : \A a, b \in 1..len : f[a] = f[b] => a = b}

\* calculateSummary(resources, len(report.Projects)) on the list as collected
SummaryOfList ==
    /\ applied = <<>>
    /\ applied' = <<[list |-> resources,
                     summary |-> calculateSummary(resources, MaxScopes)]>>
    /\ UNCHANGED <<runVars, storeVars, handlerVars, sessionVars, resources, lookups, collected>>

\* calculateSummary on the same resources collected in another order
SummaryOfReordered ==
    /\ Len(applied) = 1
    /\ \E f \in Orders(Len(resources)) :
         \E list \in {[n \in 1..Len(resources) |-> resources[f[n]]]} :
            applied' = Append(applied,
                              [list |-> list,
                               summary |-> calculateSummary(list, MaxScopes)])
    /\ UNCHANGED <<runVars, storeVars, handlerVars, sessionVars, resources, lookups, collected>>

(***************************************************************************)
(* Specifications.                                                         *)
(***************************************************************************)
Init == RunInit /\ StoreIdle /\ HandlerIdle /\ PureIdle /\ SessionIdle

Next ==
    \/ fetchFromOpenStack
    \/ RefreshWithProgress
    \/ NewClient
    \/ SingleProjectMode
    \/ getProjectsViaAPI
    \/ getProjectsViaCommand
    \/ FallbackCurrentProject
    \/ CollectProject
    \/ FinishProjects
    \/ collectResourcesForProjects

Spec == Init /\ [][Next]_vars

StoreInit ==
    /\ envProjectName = ""
    /\ envProjectID = ""
    /\ nScopes = 0
    /\ projectsGetOK = FALSE
    /\ RunIdle
    /\ StoreIdle
    /\ HandlerIdle
    /\ SessionIdle
    /\ PureIdle

StoreNext ==
    \/ SaveReport
    \/ LoadReport
    \/ CleanupBackups
    \/ Tick

StoreSpec == StoreInit /\ [][StoreNext]_vars

\* one writer saving report after report while a request reads the snapshot
WriterNext ==
    \/ SaveReportBackup
    \/ SaveReportOpen
    \/ SaveReportWritten
    \/ Tick
    \/ GetResources
    \/ ExportToPDF

WriterSpec == StoreInit /\ [][WriterNext]_vars

\* progress sessions and the requests that stream them
SessionNext ==
    \/ \E s \in 1..MaxSessions :
           \/ RefreshWithProgressSession(s)
           \/ SessionSend(s)
           \/ SessionReturn(s)
           \/ SessionDelete(s)
           \/ SessionClose(s)
    \/ \E r \in 1..MaxStreams :
           \/ GetProgressLookup(r)
           \/ GetProgressReceive(r)
           \/ GetProgressDone(r)

SessionSpec == StoreInit /\ [][SessionNext]_vars

\* the Go scheduler runs every goroutine that can take a step: the deferred
\* function of a session's goroutine, and the loop of a GetProgress request
SessionFairSpec ==
    /\ SessionSpec
    /\ \A s \in 1..MaxSessions :
           WF_vars(SessionDelete(s)) /\ WF_vars(SessionClose(s))
    /\ \A r \in 1..MaxStreams : WF_vars(GetProgressReceive(r))

\* runs with a progress reporter only, with no OS_PROJECT_ID configured
ProgressInit ==
    /\ Init
    /\ envProjectID = ""

\* runs with no OS_PROJECT_ID configured and a project name, if any, that
\* needs no trimming
ConsumerInit ==
    /\ ProgressInit
    /\ envProjectName # " "

ProgressNext ==
    \/ fetchFromOpenStackWithProgress
    \/ NewClient
    \/ SingleProjectMode
    \/ getProjectsViaAPI
    \/ getProjectsViaCommand
    \/ FallbackCurrentProject
    \/ CollectProject
    \/ FinishProjects
    \/ collectResourcesForProjects

ProgressSpec == ConsumerInit /\ [][ProgressNext]_vars

\* two runs of GetAllResources, one after the other, against an origin that
\* does not change
RepeatNext ==
    \/ fetchFromOpenStack
    \/ NewClient
    \/ SingleProjectMode
    \/ getProjectsViaAPI
    \/ getProjectsViaCommand
    \/ FallbackCurrentProject
    \/ CollectProject
    \/ FinishProjects
    \/ collectResourcesForProjects
    \/ fetchFromOpenStackAgain

RepeatSpec == ConsumerInit /\ [][RepeatNext]_vars

\* calculateSummary applied to a resource list and to a reordering of it
SummaryInit ==
    /\ envProjectName = ""
    /\ envProjectID = ""
    /\ nScopes = 0
    /\ projectsGetOK = FALSE
    /\ RunIdle
    /\ StoreIdle
    /\ HandlerIdle
    /\ SessionIdle
    /\ resources \in InputLists
    /\ applied = <<>>
    /\ lookups = NoLookups
    /\ collected = <<>>

SummaryNext ==
    \/ SummaryOfList
    \/ SummaryOfReordered

SummarySpec == SummaryInit /\ [][SummaryNext]_vars

\* the collectors that enrich their records, applied to one project
EnrichInit ==
    /\ envProjectName = ""
    /\ envProjectID = ""
    /\ nScopes = 0
    /\ projectsGetOK = FALSE
    /\ RunIdle
    /\ StoreIdle
    /\ HandlerIdle
    /\ SessionIdle
    /\ resources = <<>>
    /\ applied = <<>>
    /\ lookups \in LookupInputs
    /\ collected = <<>>

EnrichNext ==
    \/ getServersForSingleProject
    \/ getVolumesForSingleProject
    \/ getFloatingIPs
    \/ getNetworks

EnrichSpec == EnrichInit /\ [][EnrichNext]_vars

\* a refresh with a progress reporter and a stream reader taking events
ConsumerNext ==
    \/ ProgressNext
    \/ GetProgress

ConsumerSpec == ConsumerInit /\ [][ConsumerNext]_vars

\* runs, with or without reporter, whose caller may go away at any moment
CancelNext == Next \/ ContextDone

CancelSpec == ConsumerInit /\ [][CancelNext]_vars

\* the data directory a starting process may find: empty, holding a report
\* of an earlier process, or holding a file that is no complete document
FoundDirectories ==
    {<<>>,
     WriteFile(<<>>, reportPath, Marshal(SampleReport(0, 1)), 0),
     WriteFile(<<>>, reportPath, TruncatedDocument, 0)}

HandlerInit ==
    /\ RunInit
    /\ fs \in FoundDirectories
    /\ now = 0
    /\ saves = 0
    /\ saved = <<>>
    /\ lastOp = [op |-> "none", err |-> ""]
    /\ loaded = NotLoaded
    /\ pruned = FALSE
    /\ PureIdle
    /\ HandlerIdle
    /\ SessionIdle

HandlerNext ==
    \/ GetResources
    \/ GetResourcesFetched
    \/ NewClient
    \/ SingleProjectMode
    \/ getProjectsViaAPI
    \/ getProjectsViaCommand
    \/ FallbackCurrentProject
    \/ CollectProject
    \/ FinishProjects
    \/ collectResourcesForProjects

HandlerSpec == HandlerInit /\ [][HandlerNext]_vars

\* a refresh, with or without progress session, on a data directory as found
RefreshInit ==
    /\ HandlerInit
    /\ envProjectID = ""
    /\ envProjectName # " "

RefreshNext ==
    \/ fetchFromOpenStack
    \/ RefreshWithProgress
    \/ NewClient
    \/ SingleProjectMode
    \/ getProjectsViaAPI
    \/ getProjectsViaCommand
    \/ FallbackCurrentProject
    \/ CollectProject
    \/ FinishProjects
    \/ collectResourcesForProjects
    \/ RefreshResources
    \/ RefreshWithProgressReturn

RefreshSpec == RefreshInit /\ [][RefreshNext]_vars

(***************************************************************************)
(* Properties of a collection run (Spec).                                  *)
(***************************************************************************)
\* number of entries of rs whose Type is T
CountOfType(rs, T) == Cardinality({i \in 1..Len(rs) : rs[i].Type = T})

\* the Summary counter of resource type T
SummaryField(summary, T) ==
    CASE T = "server"        -> summary.TotalServers
      [] T = "volume"        -> summary.TotalVolumes
      [] T = "floating_ip"   -> summary.TotalFloatingIPs
      [] T = "router"        -> summary.TotalRouters
      [] T = "network"       -> summary.TotalNetworks
      [] T = "load_balancer" -> summary.TotalLoadBalancers
      [] T = "vpn_service"   -> summary.TotalVPNServices
      [] T = "cluster"       -> summary.TotalClusters

\* every record the origin holds for collector j of project k is in the report
Listed(k, j) ==
    \A n \in 1..RawCount(k, j) :
        \E m \in 1..Len(report.Resources) :
            /\ report.Resources[m].ID = <<k, j, n>>
            /\ report.Resources[m].Type = ResourceType(j)

\* positions in calls of the failed calls of operations ops
Failed(ops) == {i \in 1..Len(calls) : calls[i].op \in ops /\ ~calls[i].ok}

\* every successful scoped list call has all its records in the report
EverySuccessfulListIsReported ==
    \A i \in 1..Len(calls) :
        (calls[i].op = "list" /\ calls[i].ok)
            => Listed(ScopeIndex(calls[i].scope), calls[i].tag)

\* positions in calls of the failed volume list calls
VolumeFailures == {i \in Failed({"list"}) : calls[i].tag = 2}

\* C1: in every returned report, on every path, the summary counter of each
\* resource type equals the number of resources of that type in the report.
C1_SummaryCountsResources ==
    outcome = "report" =>
        \A T \in ResourceTypes :
            SummaryField(report.Summary, T) = CountOfType(report.Resources, T)

C1_Witness ==
    /\ outcome = "report"
    /\ CountOfType(report.Resources, "network") >= 1
    /\ CountOfType(report.Resources, "volume") >= 2

\* C2: in a run over the discovered projects in which the volume list fails
\* for exactly one project, the other collectors are still run for that
\* project and the report holds every record of every list call that
\* succeeded, for that project and for the others.
C2_VolumeFailureKeepsTheRest ==
    (path = "multi" /\ outcome = "report" /\ Cardinality(VolumeFailures) = 1) =>
        /\ \A i \in VolumeFailures : \A j \in {1, 3, 4, 5, 7} :
               \E c \in 1..Len(calls) :
                   /\ calls[c].op = "list"
                   /\ calls[c].scope = calls[i].scope
                   /\ calls[c].tag = j
        /\ EverySuccessfulListIsReported

C2_Witness ==
    /\ path = "multi"
    /\ outcome = "report"
    /\ Len(allProjects) = 2
    /\ Cardinality(VolumeFailures) = 1
    /\ \E i \in VolumeFailures : calls[i].scope = "beta"
    /\ \E m \in 1..Len(report.Resources) : report.Resources[m].ID = <<2, 1, 1>>
    /\ \E m \in 1..Len(report.Resources) : report.Resources[m].ID = <<1, 2, 2>>

\* C3: in every collection mode, a run in which the list call of a collector
\* failed still returns a report.
C3_ListFailureNeverStopsTheRun ==
    (pc = "done" /\ Failed({"list"}) # {}) => outcome = "report"

\* C4: in a run over the discovered projects, when the session of one
\* project cannot be created, every project is still attempted, a
\* project_error event naming the failed project is issued, the run returns
\* a report and the report holds every record of every successful list call.
C4_SessionFailureSkipsOnlyThatProject ==
    (path = "multi" /\ pc = "done") =>
        \A i \in Failed({"createClientForProject"}) :
            /\ outcome = "report"
            /\ withProgress =>
                   \E m \in 1..Len(issued) :
                       issued[m] = Msg("project_error", calls[i].scope, "", 0)
            /\ \A p \in 1..nScopes :
                   \E c \in 1..Len(calls) :
                       /\ calls[c].op = "createClientForProject"
                       /\ calls[c].scope = ScopeNames[p]
            /\ EverySuccessfulListIsReported

C4_Witness ==
    /\ path = "multi"
    /\ pc = "done"
    /\ withProgress
    /\ nScopes = 2
    /\ \E i \in Failed({"createClientForProject"}) : calls[i].scope = "alpha"
    /\ \E m \in 1..Len(report.Resources) : report.Resources[m].ProjectName = "beta"

\* C5: with no project name configured, a run in which exactly one
\* authentication failed (that of NewClient included) and no list call
\* failed returns a report.
C5_OneAuthFailureNeverFailsAllProjectsRun ==
    (/\ TrimSpace(envProjectName) = ""
     /\ pc = "done"
     /\ Cardinality(Failed({"NewClient", "createClientForProject"})) = 1
     /\ Failed({"list"}) = {})
        => outcome = "report"

\* C6: once the API listing and the CLI listing have both failed, the run
\* goes on with exactly one project, built from the configured id or the
\* placeholder, and only a failed list call can make it return an error.
C6_DiscoveryFailureInfersCurrentProject ==
    (/\ Failed({"getProjectsViaAPI"}) # {}
     /\ Failed({"cli"}) # {}
     /\ pc \in {"shared", "done"})
        => /\ path = "fallback"
           /\ Len(report.Projects) = 1
           /\ report.Projects[1].ID =
                  (IF envProjectID = "" THEN "current-project" ELSE envProjectID)
           /\ outcome = "error" => Failed({"list"}) # {}

C6_Witness ==
    /\ Failed({"getProjectsViaAPI"}) # {}
    /\ Failed({"cli"}) # {}
    /\ pc = "done"
    /\ outcome = "report"
    /\ report.Projects = <<[ID |-> "current-project", Name |-> "Current Project"]>>

\* C7: with a non-blank OS_PROJECT_NAME no project listing (API or CLI) is
\* ever called, no per-project session is created, and a returned report
\* lists exactly one project.
C7_ExplicitProjectSkipsDiscovery ==
    TrimSpace(envProjectName) # "" =>
        /\ \A i \in 1..Len(calls) :
               calls[i].op \notin {"getProjectsViaAPI", "cli", "createClientForProject"}
        /\ outcome = "report" => Len(report.Projects) = 1

C7_Witness ==
    /\ TrimSpace(envProjectName) # ""
    /\ outcome = "report"
    /\ Len(report.Projects) = 1
    /\ Len(report.Resources) > 0

\* C8: a report of a run over the discovered projects lists all of them, in
\* the order of discovery, whatever failed.
C8_ReportListsEveryDiscoveredProject ==
    (path = "multi" /\ outcome = "report") =>
        report.Projects = DiscoveredProjects(nScopes)

C8_Witness ==
    /\ path = "multi"
    /\ outcome = "report"
    /\ nScopes = 2
    /\ \E i \in Failed({"createClientForProject"}) : calls[i].scope = "beta"
    /\ \A m \in 1..Len(report.Resources) : report.Resources[m].ProjectName # "beta"

\* C12: a run with a reporter always has a next step until it has returned,
\* whether the channel is nil, full or never read, and the channel holds
\* exactly the issued events that found room: the others were dropped.
C12_SendProgressNeverBlocks ==
    (withProgress \/ pc = "idle") =>
        /\ pc # "done" => ENABLED ProgressNext
        /\ progressChan =
               SubSeq(issued, 1,
                      IF chanCap = NilChan THEN 0
                      ELSE IF Len(issued) <= chanCap THEN Len(issued) ELSE chanCap)

C12_Witness ==
    /\ withProgress
    /\ pc = "done"
    /\ outcome = "report"
    /\ chanCap = SmallCap
    /\ Len(progressChan) = SmallCap
    /\ Len(issued) > SmallCap

(***************************************************************************)
(* Properties of the snapshot store (StoreSpec).                           *)
(***************************************************************************)
\* some backup file holds the document SaveReport wrote for rep
BackupHolds(rep) ==
    \E n \in DOMAIN fs : n.backup /\ fs[n].data = Marshal(rep)

\* C9: when every SaveReport succeeded and nothing was pruned, a LoadReport
\* that follows returns the report saved last, equal to it in all fields,
\* and a backup file holds the report saved before it.
C9_LoadReturnsWhatWasSaved ==
    (/\ lastOp.op = "LoadReport"
     /\ Len(saved) >= 1
     /\ saves = Len(saved)
     /\ ~pruned)
        => /\ loaded.err = ""
           /\ loaded.report = saved[Len(saved)]
           /\ Len(saved) >= 2 => BackupHolds(saved[Len(saved) - 1])

\* C10: when every SaveReport succeeded and nothing was pruned, every report
\* saved before the last one is held by some backup file.
C10_NoSavedReportIsLost ==
    (saves = Len(saved) /\ ~pruned) =>
        \A i \in 1..(Len(saved) - 1) : BackupHolds(saved[i])

(***************************************************************************)
(* Properties of the handlers (HandlerSpec).                               *)
(***************************************************************************)
\* C11: a GetResources request that finds no loadable cached report and
\* cannot open the initial session answers no success and saves nothing; a
\* success answered without a cached report is a report a run returned.
C11_UnreachableIsAnErrorNotAnEmptyReport ==
    (request = "GetResources" /\ loaded.err # "") =>
        /\ Failed({"NewClient"}) # {} =>
               /\ response.status \in {0, 500}
               /\ saves = 0
               /\ fs \in FoundDirectories
        /\ response.status = 200 =>
               /\ Failed({"NewClient"}) = {}
               /\ outcome = "report"
               /\ response.report = report

C11_Witness ==
    /\ request = "GetResources"
    /\ loaded.err = "no saved report found"
    /\ Failed({"NewClient"}) # {}
    /\ response.status = 500
    /\ fs = <<>>

\* the identifiers of the resources of a report
ResourceIDs(rep) == {rep.Resources[n].ID : n \in 1..Len(rep.Resources)}

\* C13: a run with a progress reporter ends as the run without one does on the
\* same answers of the origin: both fail or both succeed, and on success the
\* projects, the set of resource ids and the summary are the same, whatever the
\* capacity of the channel and however many events were taken or dropped
C13_ProgressNeverChangesTheOutcome ==
    withProgress =>
        /\ outcome = plain.outcome
        /\ outcome = "report" =>
               /\ report.Projects = plain.report.Projects
               /\ ResourceIDs(report) = ResourceIDs(plain.report)
               /\ report.Summary = plain.report.Summary

\* a finished run on a small channel with events taken and events dropped
C13_Witness ==
    /\ withProgress
    /\ pc = "done"
    /\ outcome = "report"
    /\ plain.outcome = "report"
    /\ chanCap = SmallCap
    /\ received > 0
    /\ Len(issued) > received + Len(progressChan)
    /\ Len(report.Resources) > 0
    /\ FailedCalls(calls) > 0

\* the resources of type ResourceType(j) in rs that the origin holds for project k
FromScope(rs, k, j) ==
    {m \in 1..Len(rs) : rs[m].Type = ResourceType(j) /\ rs[m].ID[1] = k}

\* C14: in a run over all projects with a progress reporter, for every failed
\* list call of a collector of type T in project S, a resource_error event with
\* project S and type T has been issued, the collected resources and the report
\* hold no resource of type T of S, the summary counts only the resources of
\* type T of the other projects, and S is in Report.Projects.
C14_FailedCollectorIsReportedAndContained ==
    (withProgress /\ path = "multi") =>
        \A i \in Failed({"list"}) :
            LET S == calls[i].scope
                T == calls[i].tag
            IN  /\ \E m \in 1..Len(issued) :
                       issued[m] = Msg("resource_error", S, TypeOrder[T], 0)
                /\ FromScope(allResources, ScopeIndex(S), T) = {}
                /\ FromScope(report.Resources, ScopeIndex(S), T) = {}
                /\ \E p \in 1..Len(report.Projects) : report.Projects[p].Name = S
                /\ outcome = "report" =>
                       SummaryField(report.Summary, ResourceType(T)) =
                           Cardinality(UNION {FromScope(report.Resources, k, T) :
                                                 k \in (1..nScopes) \ {ScopeIndex(S)}})

\* the router collector of alpha, which has a router, failed; the report has
\* alpha's volumes and beta's resources
C14_Witness ==
    /\ withProgress
    /\ path = "multi"
    /\ outcome = "report"
    /\ nScopes = 2
    /\ \E i \in Failed({"list"}) : calls[i].scope = "alpha" /\ calls[i].tag = 4
    /\ RawCount(1, 4) > 0
    /\ report.Summary.TotalRouters = 0
    /\ \E m \in 1..Len(report.Resources) : report.Resources[m].ID = <<1, 2, 1>>
    /\ \E m \in 1..Len(report.Resources) : report.Resources[m].ID[1] = 2

TypeCounts(rs) == [T \in InputTypes |-> CountOfType(rs, T)]

\* C16: calculateSummary gives the same summary for every two lists that hold
\* the same number of resources of each type, so for a list and each of its
\* reorderings.
C16_SummaryIgnoresTheOrder ==
    \A a, b \in 1..Len(applied) :
        TypeCounts(applied[a].list) = TypeCounts(applied[b].list)
            => applied[a].summary = applied[b].summary

\* a list of three resources of three types, one of them a cluster, summarised
\* in two different orders
C16_Witness ==
    /\ Len(applied) = 2
    /\ Len(resources) = 3
    /\ applied[1].list # applied[2].list
    /\ applied[2].list[1].Type = "cluster"
    /\ applied[1].list[1].Type = "network"
    /\ applied[1].summary.TotalNetworks = 1
    /\ applied[1].summary.TotalClusters = 1

\* the result of collector name, if it was applied
Collected(name) == {n \in 1..Len(collected) : collected[n].collector = name}

\* C17: when the list call of the volume collector succeeds, the volume has a
\* first attachment to a server and the lookup of that server fails, the
\* collector returns no error and the volume with AttachedTo equal to the
\* server id.
C17_FailedServerLookupShowsTheServerID ==
    \A n \in Collected("volumes") :
        (/\ lookups.listOK
         /\ Len(lookups.attachments) > 0
         /\ lookups.attachments[1] # ""
         /\ "servers.Get" \in lookups.failing)
            => /\ ~collected[n].err
               /\ Len(collected[n].resources) = 1
               /\ collected[n].resources[1].ID = "vol"
               /\ collected[n].resources[1].Properties.AttachedTo =
                      lookups.attachments[1]

\* a volume attached to s1 and s2, collected while servers.Get fails
C17_Witness ==
    /\ Collected("volumes") # {}
    /\ lookups.listOK
    /\ lookups.attachments = <<"s1", "s2">>
    /\ "servers.Get" \in lookups.failing
    /\ collected[1].resources[1].Properties.AttachedTo = "s1"

\* C18: when the list call of a collector succeeds, the collector returns no
\* error and the resource whatever lookups fail, and the field a failed lookup
\* was to fill holds the identifier that was looked up: the flavor id in
\* FlavorName, the server id in AttachedTo, the port id or the device id in
\* AttachedResourceName.
C18_FailedLookupShowsTheRawID ==
    \A n \in 1..Len(collected) :
        lookups.listOK =>
            LET r == collected[n]
                p == r.resources[1].Properties
            IN  /\ ~r.err
                /\ Len(r.resources) = 1
                /\ (/\ r.collector = "servers"
                    /\ lookups.flavor = "f1"
                    /\ "flavors.Get" \in lookups.failing)
                       => p.FlavorName = "f1"
                /\ (/\ r.collector = "volumes"
                    /\ Len(lookups.attachments) > 0
                    /\ lookups.attachments[1] # ""
                    /\ "servers.Get" \in lookups.failing)
                       => p.AttachedTo = lookups.attachments[1]
                /\ (/\ r.collector = "floating_ips"
                    /\ lookups.port.ID # ""
                    /\ "ports.Get" \in lookups.failing)
                       => p.AttachedResourceName = lookups.port.ID
                /\ (/\ r.collector = "floating_ips"
                    /\ lookups.port.DeviceID # ""
                    /\ lookups.port.DeviceOwner = "compute:nova"
                    /\ "ports.Get" \notin lookups.failing
                    /\ "servers.Get" \in lookups.failing)
                       => p.AttachedResourceName = lookups.port.DeviceID

\* C19: in every returned report each resource has a project name that is not
\* blank, and in a run over all projects a resource collected through the
\* session of project k, whose tenant id is k's or absent, carries the id and
\* the name of k.
C19_ResourcesBelongToTheSessionsProject ==
    outcome = "report" =>
        \A m \in 1..Len(report.Resources) :
            LET r == report.Resources[m]
                k == r.ID[1]
            IN  /\ TrimSpace(r.ProjectName) # ""
                /\ path = "multi" =>
                       /\ r.ProjectID = ScopeIDOf(k)
                       /\ r.ProjectName = ScopeNames[k]

\* the calls that make the optional sub-clients of a session
OptionalClients == {"NewLoadBalancerV2", "NewContainerInfraV1"}

\* C20: in a run over all projects, when the load balancer or the container
\* sub-client of the session of project S cannot be made, the session is
\* returned and used (its server list call follows), the collector of that
\* type is not called and adds no resource of S, no error event is issued for
\* S or for that type of S, and the run returns a report; on the shared
\* session a missing sub-client leaves the report without resources of that
\* type and is no error of the run.
C20_MissingOptionalClientIsNotAnError ==
    /\ \A i \in Failed(OptionalClients) :
           LET S == calls[i].scope
               T == calls[i].tag
           IN  /\ \E c \in 1..Len(calls) :
                      calls[c] = Call("createClientForProject", S, 0, TRUE)
               /\ \E c \in (i + 1)..Len(calls) :
                      calls[c].op = "list" /\ calls[c].scope = S /\ calls[c].tag = 1
               /\ \A c \in 1..Len(calls) :
                      ~(calls[c].op = "list" /\ calls[c].scope = S /\ calls[c].tag = T)
               /\ FromScope(allResources, ScopeIndex(S), T) = {}
               /\ withProgress =>
                      \A m \in 1..Len(issued) :
                          /\ issued[m] # Msg("project_error", S, "", 0)
                          /\ issued[m] # Msg("resource_error", S, TypeOrder[T], 0)
               /\ pc = "done" => outcome = "report"
    /\ (pc = "done" /\ path \in {"single", "fallback"} /\ outcome = "report") =>
           /\ ~client.lb => CountOfType(report.Resources, "load_balancer") = 0
           /\ ~client.container => CountOfType(report.Resources, "cluster") = 0
    /\ (pc = "done" /\ path \in {"single", "fallback"} /\ Failed({"list", "list-all"}) = {})
           => outcome = "report"

\* the session of alpha, which has a load balancer, came without the load
\* balancer sub-client; the report has alpha's volume and no load balancer
C20_Witness ==
    /\ path = "multi"
    /\ pc = "done"
    /\ outcome = "report"
    /\ withProgress
    /\ RawCount(1, 6) > 0
    /\ \E i \in Failed(OptionalClients) : calls[i].scope = "alpha" /\ calls[i].tag = 6
    /\ \E m \in 1..Len(report.Resources) : report.Resources[m].ID = <<1, 2, 1>>
    /\ report.Summary.TotalLoadBalancers = 0

\* the remote calls a collector makes
CollectorOps == {"list", "list-all", "projects.Get"}

\* the remote calls made for the session of one project
SessionOps == {"createClientForProject"} \cup OptionalClients \cup CollectorOps

\* position of a resource type in the order of collection
TypeIndex(t) == CHOOSE j \in 1..Len(TypeOrder) : TypeOrder[j] = t

IsCollectorCall(c) == c.op \in CollectorOps
IsSessionCall(c) == c.op \in SessionOps
IsResourceStart(m) == m.Type = "resource_start"

\* the elements of seq with equal Key stand together: where the key changes,
\* the new key was not seen before
InBlocks(seq, Key(_)) ==
    \A b \in 2..Len(seq) :
        Key(seq[b - 1]) # Key(seq[b])
            => \A a \in 1..(b - 1) : Key(seq[a]) # Key(seq[b])

ScopeOfCall(c) == c.scope
ProjectOfEvent(m) == m.Project

\* C21: the calls the collectors make through one session follow the order
\* servers, volumes, floating IPs, routers, networks, load balancers, VPN
\* connections, clusters, on the shared session and on that of each project;
\* the resource_start events of one project follow the same order; and the
\* calls and events of one project's session are not interleaved with those
\* of another project.
C21_CollectorsRunInOrderOneAtATime ==
    LET collector == SelectSeq(calls, IsCollectorCall)
        session == SelectSeq(calls, IsSessionCall)
        starts == SelectSeq(issued, IsResourceStart)
    IN  /\ InBlocks(collector, ScopeOfCall)
        /\ \A b \in 2..Len(collector) :
               collector[b - 1].scope = collector[b].scope
                   => collector[b - 1].tag <= collector[b].tag
        /\ InBlocks(starts, ProjectOfEvent)
        /\ \A b \in 2..Len(starts) :
               starts[b - 1].Project = starts[b].Project
                   => TypeIndex(starts[b - 1].ResourceType)
                          < TypeIndex(starts[b].ResourceType)
        /\ path = "multi" => InBlocks(session, ScopeOfCall)

\* a finished run with a reporter over two projects, both with their server
\* and VPN list calls made
C21_Witness ==
    /\ path = "multi"
    /\ pc = "done"
    /\ withProgress
    /\ nScopes = 2
    /\ \A S \in {"alpha", "beta"} : \A T \in {1, 7} :
           \E c \in 1..Len(calls) :
               calls[c].op = "list" /\ calls[c].scope = S /\ calls[c].tag = T

\* positions in calls of the calls of operation op
CallsOf(op) == {i \in 1..Len(calls) : calls[i].op = op}

\* C22: the project listing over the API is asked at most once and first; the
\* CLI is asked at most once and only after the API listing failed; the
\* current project is inferred only after both failed; and the projects of
\* the report are those of the first strategy that succeeded.
C22_DiscoveryStopsAtTheFirstSuccess ==
    /\ Cardinality(CallsOf("getProjectsViaAPI")) <= 1
    /\ Cardinality(CallsOf("cli")) <= 1
    /\ \A c \in CallsOf("cli") :
           \E a \in CallsOf("getProjectsViaAPI") : a < c /\ ~calls[a].ok
    /\ path = "fallback" =>
           /\ \E a \in CallsOf("getProjectsViaAPI") : ~calls[a].ok
           /\ \E c \in CallsOf("cli") : ~calls[c].ok
           /\ report.Projects = <<getCurrentProject(projectsGetOK)>>
    /\ (\E a \in CallsOf("getProjectsViaAPI") : calls[a].ok) =>
           /\ CallsOf("cli") = {}
           /\ path = "multi"
           /\ report.Projects = DiscoveredProjects(nScopes)
    /\ (\E c \in CallsOf("cli") : calls[c].ok) =>
           /\ path = "multi"
           /\ report.Projects = DiscoveredProjects(nScopes)
    /\ path = "multi" =>
           \E c \in CallsOf("getProjectsViaAPI") \cup CallsOf("cli") : calls[c].ok

\* a finished run whose two projects came from the CLI after the API failed
C22_Witness ==
    /\ pc = "done"
    /\ outcome = "report"
    /\ nScopes = 2
    /\ \E a \in CallsOf("getProjectsViaAPI") : ~calls[a].ok
    /\ \E c \in CallsOf("cli") : calls[c].ok
    /\ Len(report.Projects) = 2
    /\ Len(report.Resources) > 0

IsProjectEvent(m) ==
    m.Type \in {"project_start", "project_complete", "project_error",
                "resource_start", "resource_complete", "resource_error"}
IsProjectStart(m) == m.Type = "project_start"
IsProjectEnd(m) == m.Type \in {"project_complete", "project_error"}

\* C23: in a run over all projects with a reporter, the project_start events
\* name the discovered projects in their order; every resource event and
\* every project_complete or project_error follows, without another
\* project's event in between, the project_start of its own project; a
\* project_start follows only the closing event of the project before; a
\* project is closed by project_error exactly when its session could not be
\* created, and then no resource event lies between; and every project of a
\* finished run is closed.
C23_ProjectEventsBracketEachProject ==
    (path = "multi" /\ withProgress) =>
        LET pe == SelectSeq(issued, IsProjectEvent)
            starts == SelectSeq(pe, IsProjectStart)
            ends == SelectSeq(pe, IsProjectEnd)
        IN  /\ Len(starts) <= Len(allProjects)
            /\ \A k \in 1..Len(starts) : starts[k].Project = allProjects[k].Name
            /\ \A b \in 1..Len(pe) :
                   IF IsProjectStart(pe[b])
                   THEN b = 1 \/ IsProjectEnd(pe[b - 1])
                   ELSE /\ b > 1
                        /\ pe[b - 1].Project = pe[b].Project
                        /\ ~IsProjectEnd(pe[b - 1])
            /\ \A b \in 1..Len(pe) :
                   IsProjectEnd(pe[b]) =>
                       /\ pe[b].Type = "project_error"
                           <=> \E c \in CallsOf("createClientForProject") :
                                   calls[c].scope = pe[b].Project /\ ~calls[c].ok
                       /\ pe[b].Type = "project_error" => IsProjectStart(pe[b - 1])
            /\ Len(ends) = Len(starts)
            /\ pc = "done" => Len(starts) = Len(allProjects)

\* a finished run over two projects: the session of the first could not be
\* created, the second was collected with a failed and a successful collector
C23_Witness ==
    /\ path = "multi" /\ withProgress /\ pc = "done" /\ nScopes = 2
    /\ \E a, b, c, d \in 1..Len(issued) :
           /\ a < b /\ b < c /\ c < d
           /\ issued[a] = Msg("project_error", "alpha", "", 0)
           /\ issued[b].Type = "resource_error" /\ issued[b].Project = "beta"
           /\ issued[c].Type = "resource_complete" /\ issued[c].Project = "beta"
           /\ issued[d].Type = "project_complete" /\ issued[d].Project = "beta"

\* the ids of the resources of collector j in a report
IDsOfType(rep, j) ==
    {rep.Resources[n].ID :
        n \in {m \in 1..Len(rep.Resources) : rep.Resources[m].Type = ResourceType(j)}}
IDsOfRaw(raw) == {raw[n].ID : n \in 1..Len(raw)}

\* C24: in a run on the shared session, for servers and for volumes: without a
\* project name the list is first asked over all tenants, a rejected
\* all-tenants call is followed at once by exactly one call scoped to the
\* own tenant and an accepted one by none; the report holds the records of
\* the call that succeeded; the run fails at this collector only when the
\* retry failed too.  With a project name there is no all-tenants call and
\* the scoped call is made once.
C24_AllTenantsThenOneScopedRetry ==
    path \in {"single", "fallback"} =>
        \A j \in 1..2 :
            LET all == {i \in CallsOf("list-all") : calls[i].tag = j}
                own == {i \in CallsOf("list") : calls[i].tag = j}
            IN  /\ Cardinality(all) <= 1
                /\ Cardinality(own) <= 1
                /\ TrimSpace(envProjectName) # "" => all = {}
                /\ TrimSpace(envProjectName) = "" =>
                       /\ \A i \in own : (i - 1) \in all /\ ~calls[i - 1].ok
                       /\ \A i \in all : ~calls[i].ok <=> (i + 1) \in own
                /\ \A i \in all \cup own :
                       /\ (calls[i].ok /\ outcome = "report") =>
                              IDsOfType(report, j) =
                                  IDsOfRaw(IF i \in all
                                           THEN RawListAllTenants(nScopes, j)
                                           ELSE RawList(ScopeIndex(SharedSession), j))
                       /\ (calls[i].ok /\ outcome = "error") => i < Len(calls)
                       /\ (~calls[i].ok /\ i \in own) =>
                              outcome = "error" /\ i = Len(calls)

\* a finished run without project name whose all-tenants list of the servers
\* was rejected and whose retry gave the servers of the own tenant
C24_Witness ==
    /\ path = "fallback" /\ pc = "done" /\ outcome = "report"
    /\ TrimSpace(envProjectName) = ""
    /\ \E i \in CallsOf("list-all") :
           /\ calls[i].tag = 1 /\ ~calls[i].ok
           /\ calls[i + 1] = Call("list", SharedSession, 1, TRUE)
    /\ IDsOfType(report, 1) # {}
    /\ IDsOfType(report, 1) # IDsOfRaw(RawListAllTenants(nScopes, 1))

\* C25: once the caller's context is done, the collection starts no further
\* remote call: it stops before the next project or resource type.
C25_CancelledCollectionStartsNothingNew ==
    [][cancelled => calls' = calls]_vars

\* the refresh has answered success: 200 from RefreshResources, or the
\* complete event of a progress session
RefreshSucceeded ==
    \/ request = "RefreshResources" /\ response.status = 200
    \/ request = "RefreshWithProgress" /\ outcome = "report"

\* C26: once a refresh has answered success, the canonical file holds the
\* fresh report, and LoadReport returns it (as read back from its document).
C26_SuccessfulRefreshReplacedTheSnapshot ==
    RefreshSucceeded =>
        /\ LoadResult(fs).err = ""
        /\ LoadResult(fs).report = Unmarshal(Marshal(report))

\* C27: after a SaveReport that returned an error, the canonical file is what
\* it was: it loads, and LoadReport returns the report saved last before.
C27_FailedSaveLeavesTheSnapshot ==
    (lastOp.op = "SaveReport" /\ lastOp.err # "" /\ Len(saved) >= 1) =>
        /\ LoadResult(fs).err = ""
        /\ LoadResult(fs).report = Unmarshal(Marshal(saved[Len(saved)]))

\* C28: once a report has been saved, a reader never misses the snapshot:
\* the canonical file exists, GetResources answers from it without going to
\* the origin, and ExportToPDF does not answer 404.
C28_ReadersAlwaysFindASnapshot ==
    Len(saved) >= 1 =>
        /\ ReportExists(fs)
        /\ request = "GetResources" => (loaded.err = "" /\ pc = "idle")
        /\ request = "ExportToPDF" => response.status # 404

IsResourceEvent(m) ==
    m.Type \in {"resource_start", "resource_complete", "resource_error"}

\* C29: in a run with a reporter, every resource_start is followed, before
\* any other resource event, by one resource_complete or resource_error of
\* the same project and type, every such closing event follows its
\* resource_start, and a finished run has no resource_start left open.
C29_EveryResourceStartIsClosed ==
    LET re == SelectSeq(issued, IsResourceEvent)
    IN  /\ \A b \in 1..Len(re) :
               IF IsResourceStart(re[b])
               THEN b = 1 \/ ~IsResourceStart(re[b - 1])
               ELSE /\ b > 1
                    /\ IsResourceStart(re[b - 1])
                    /\ re[b - 1].Project = re[b].Project
                    /\ re[b - 1].ResourceType = re[b].ResourceType
        /\ pc = "done" => (re = <<>> \/ ~IsResourceStart(re[Len(re)]))

(***************************************************************************)
(* Properties of the progress sessions (SessionFairSpec).                  *)
(***************************************************************************)
\* h.progressChannels holds the channel of session s
Registered(s) == \E id \in DOMAIN progressChannels : progressChannels[id] = s

\* a session whose collection returned is torn down: its channel is out of
\* h.progressChannels and closed, once
SessionsAreTornDown ==
    /\ \A s \in 1..MaxSessions :
           sessions[s].state = "returned"
               ~> (sessions[s].state = "closed" /\ ~Registered(s))
    /\ [](\A s \in 1..MaxSessions :
             /\ sessions[s].closes <= 1
             /\ sessions[s].state = "closed" => sessions[s].closes = 1)

\* no event is sent on a closed channel
NoSendAfterClose == [](\A s \in 1..MaxSessions : sessions[s].lateSends = 0)

\* a GetProgress stream on the channel of a session whose collection
\* returned ends
StreamsTerminate ==
    \A r \in 1..MaxStreams :
        (streams[r].state = "attached" /\ sessions[streams[r].chan].state = "returned")
            ~> streams[r].state = "ended"

\* the teardown of session t takes the channel of no other session out of
\* h.progressChannels and closes the channel of no other session
TeardownTouchesOnlyItsOwn ==
    [][\A s, t \in 1..MaxSessions :
          (/\ s # t
           /\ sessions[t].state \in {"returned", "deleted"}
           /\ sessions'[t].state # sessions[t].state)
              => /\ Registered(s) => Registered(s)'
                 /\ sessions'[s].closes = sessions[s].closes]_vars

\* C30: every progress session whose collection returned is torn down: its
\* entry leaves h.progressChannels and its channel is closed exactly once;
\* nothing is sent on a closed channel; a GetProgress stream attached to it
\* ends; and the teardown of one session neither removes nor closes the
\* channel of another session.
C30_SessionsAreTornDownEachAlone ==
    /\ SessionsAreTornDown
    /\ NoSendAfterClose
    /\ StreamsTerminate
    /\ TeardownTouchesOnlyItsOwn

====
